---- MODULE Spec2Model ----
(***************************************************************************)
(* Storage-adapter layer of flow-commerce-nexus: the collection contract   *)
(* (find / findOne / findById / insertOne / updateOne / deleteOne / count) *)
(* as implemented by the in-memory adapter (services/mockMongoDB.ts), the  *)
(* local-persisted adapter (BrowserMongoCollection) and the external       *)
(* document-store adapter (services/realMongoDB.ts and its ObjectId        *)
(* variant), plus the order cascade of services/mockData.ts.               *)
(*                                                                         *)
(* A record is a function from field names to values.  Field names are the *)
(* public entity fields of models/types.ts ("id" and data fields); "_id"   *)
(* is the storage-side key of the local-persisted and document adapters.   *)
(* The random token generators (Math.random / Date.now) are idealised as a *)
(* nondeterministic choice among tokens that no stored record carries.     *)
(***************************************************************************)
EXTENDS Integers, Sequences, FiniteSets, TLC

\* ---------------------------------------------------------------- bounds
\* Largest number of records a collection holds in the model.
MaxLen == 2

\* ------------------------------------------------------------- universes
\* Ids a caller can supply (the empty string is falsy in JavaScript).
ClientIds == {"", "x"}
\* Tokens the id generators can produce.
GenIds == {"g1", "g2"}
Ids == ClientIds \cup GenIds
\* Data fields of an entity and the values they take.
DataFields == {"name", "stock"}
ValOf == [name |-> {"a", "b"}, stock |-> {"1"}]
AllVals == UNION {ValOf[f] : f \in DataFields}

\* The absent result (null / undefined).  It is a record over a key that no
\* entity has, so it differs from every entity record.
Null == [absent |-> TRUE]

\* Partial records over the data fields.
DataRecs == UNION {{r \in [S -> AllVals] : \A k \in S : r[k] \in ValOf[k]} : S \in SUBSET DataFields}

\* { ...a, ...b }
Spread(a, b) == [k \in (DOMAIN a) \cup (DOMAIN b) |-> IF k \in DOMAIN b THEN b[k] ELSE a[k]]

\* const { k, ...rest } = r
Rest(r, k) == [x \in (DOMAIN r) \ {k} |-> r[x]]

\* r with an id, or r itself for each way of passing none.
WithIds(recs, ids) == recs \cup {Spread(d, [id |-> i]) : d \in recs, i \in ids}

\* Documents a caller inserts: entity records (every entity has a name), with
\* or without an id of the caller's choice.
Docs == WithIds({d \in DataRecs : "name" \in DOMAIN d}, ClientIds)
\* Patches: any subset of the fields.
Patches == WithIds(DataRecs, ClientIds)
\* Queries: any subset of the fields.
Queries == WithIds(DataRecs, Ids)

\* What a caller writes into a record it was handed.
MutFields == {"name"}
MutValue == "b"

\* JavaScript truthiness of a string-or-undefined property.
Truthy(r, k) == k \in DOMAIN r /\ r[k] # ""

\* hits[i] tells whether the callback accepts the i-th element of an array.
\* Index of the first accepted element, 0 when none
\* (Array.prototype.findIndex / find, 1-based).
FindIndex(hits) ==
  IF \E i \in 1..Len(hits) : hits[i]
  THEN CHOOSE i \in 1..Len(hits) : hits[i] /\ \A j \in 1..(i - 1) : ~hits[j]
  ELSE 0

\* Ascending indexes, from i on, of the accepted elements
\* (Array.prototype.filter).
RECURSIVE FilterIdx(_, _)
FilterIdx(hits, i) ==
  IF i > Len(hits) THEN <<>>
  ELSE IF hits[i] THEN <<i>> \o FilterIdx(hits, i + 1)
  ELSE FilterIdx(hits, i + 1)

\* The callback item => item[key] === value over an array: an element
\* without the key carries undefined there and is not accepted.
KeyIs(s, key, value) == [ix \in 1..Len(s) |-> key \in DOMAIN s[ix] /\ s[ix][key] = value]

\* s with the element at index i removed (Array.prototype.splice(i, 1)).
Splice(s, i) == [j \in 1..(Len(s) - 1) |-> IF j < i THEN s[j] ELSE s[j + 1]]

\* ------------------------------------------------- in-memory adapter
\* Object.keys(query).every(key => item[key] === query[key])
Mock_matches(item, query) ==
  \A key \in DOMAIN query : key \in DOMAIN item /\ item[key] = query[key]

\* The filter / find / findIndex callback of the adapter over its array.
Mock_hits(coll, query) == [ix \in 1..Len(coll) |-> Mock_matches(coll[ix], query)]

\* find: the sequence returned holds the stored objects themselves; live
\* lists, for each returned element, the index of the stored object it is.
Mock_find(coll, query) ==
  LET idx == IF DOMAIN query = {} THEN [i \in 1..Len(coll) |-> i]
             ELSE FilterIdx(Mock_hits(coll, query), 1)
  IN [coll |-> coll, rets |-> [k \in 1..Len(idx) |-> coll[idx[k]]], live |-> idx]

Mock_findOne(coll, query) ==
  LET i == FindIndex(Mock_hits(coll, query))
  IN [coll |-> coll, ret |-> IF i # 0 THEN coll[i] ELSE Null]

Mock_findById(coll, id) ==
  LET i == FindIndex(KeyIs(coll, "id", id))
  IN [coll |-> coll, ret |-> IF i # 0 THEN coll[i] ELSE Null]

\* insertOne: token is the generated id, used when the document carries no
\* truthy id.
Mock_insertOne(coll, document, token) ==
  LET newDoc == Spread(document, [id |-> IF Truthy(document, "id") THEN document["id"] ELSE token])
  IN [coll |-> Append(coll, newDoc), ret |-> newDoc]

\* Mutant of updateOne: the spread is written the wrong way round,
\* { ...update, ...this.collection[index] }.
Mut_Mock_updateOne(coll, filter, update) ==
  LET index == FindIndex(Mock_hits(coll, filter))
  IN IF index # 0
     THEN LET merged == Spread(update, coll[index])
          IN [coll |-> [coll EXCEPT ![index] = merged], ret |-> merged]
     ELSE [coll |-> coll, ret |-> Null]

Mock_updateOne(coll, filter, update) ==
  LET index == FindIndex(Mock_hits(coll, filter))
  IN IF index # 0
     THEN LET merged == Spread(coll[index], update)
          IN [coll |-> [coll EXCEPT ![index] = merged], ret |-> merged]
     ELSE [coll |-> coll, ret |-> Null]

\* Mutant of deleteOne: the index !== -1 test is missing, so splice(-1, 1)
\* removes the last record when nothing matches.
Mut_Mock_deleteOne(coll, filter) ==
  LET index == FindIndex(Mock_hits(coll, filter))
  IN IF index # 0
     THEN [coll |-> Splice(coll, index), ret |-> coll[index]]
     ELSE IF Len(coll) > 0
          THEN [coll |-> Splice(coll, Len(coll)), ret |-> coll[Len(coll)]]
          ELSE [coll |-> coll, ret |-> Null]

Mock_deleteOne(coll, filter) ==
  LET index == FindIndex(Mock_hits(coll, filter))
  IN IF index # 0
     THEN [coll |-> Splice(coll, index), ret |-> coll[index]]
     ELSE [coll |-> coll, ret |-> Null]

Mock_count(coll, query) ==
  IF DOMAIN query = {} THEN Len(coll)
  ELSE Len(FilterIdx(Mock_hits(coll, query), 1))

\* ------------------------------------------- local-persisted adapter
\* toStorageDocument: the public id becomes the storage key _id; token is the
\* generated id, used when the document carries neither a truthy id nor a
\* truthy _id.
Browser_toStorageDocument(doc, token) ==
  LET rest == Rest(doc, "id")
  IN IF Truthy(doc, "id") THEN Spread(rest, [_id |-> doc["id"]])
     ELSE IF ~Truthy(rest, "_id") THEN Spread(rest, [_id |-> token])
     ELSE rest

\* toAppDocument: a new object { id: _id, ...rest }.
Browser_toAppDocument(doc) ==
  IF "_id" \in DOMAIN doc
  THEN Spread([id |-> doc["_id"]], Rest(doc, "_id"))
  ELSE Rest(doc, "_id")

\* JSON.stringify of the record sequence: the text of an array of objects,
\* each object the set of its key/value members.
JSON_stringify(stor) ==
  [i \in 1..Len(stor) |-> {<<k, stor[i][k]>> : k \in DOMAIN stor[i]}]

\* JSON.parse of the text of a slot.
JSON_parse(data) ==
  [i \in 1..Len(data) |->
     [k \in {m[1] : m \in data[i]} |-> (CHOOSE m \in data[i] : m[1] = k)[2]]]

\* Mutant of saveToLocalStorage: the sequence is serialised without its last
\* record.
Mut_Browser_saveToLocalStorage(stor, oldSlot, ok) ==
  IF ok THEN JSON_stringify(SubSeq(stor, 1, Len(stor) - 1)) ELSE oldSlot

\* saveToLocalStorage: the slot receives the serialised sequence; a failing
\* setItem is caught and logged, the slot keeps its old content.
Browser_saveToLocalStorage(stor, oldSlot, ok) ==
  IF ok THEN JSON_stringify(stor) ELSE oldSlot

\* loadFromLocalStorage: the parsed text of the slot; an empty slot or a
\* text that does not parse leaves the empty sequence.
Browser_loadFromLocalStorage(data, parses) ==
  IF data # <<>> /\ parses THEN JSON_parse(data) ELSE <<>>

\* Mutant of the filter callback: the id key is compared like any other key,
\* against a stored field named id.
Mut_Browser_matches(item, query) ==
  \A key \in DOMAIN query : key \in DOMAIN item /\ item[key] = query[key]

\* The filter callback of find.
Browser_matches(item, query) ==
  \A key \in DOMAIN query :
    IF key = "id"
    THEN "_id" \in DOMAIN item /\ item["_id"] = query[key]
    ELSE key \in DOMAIN item /\ item[key] = query[key]

Browser_find(stor, query) ==
  LET idx == FilterIdx([ix \in 1..Len(stor) |-> Browser_matches(stor[ix], query)], 1)
  IN [coll |-> stor,
      rets |-> [k \in 1..Len(idx) |-> Browser_toAppDocument(stor[idx[k]])],
      live |-> [k \in 1..Len(idx) |-> 0]]

Browser_findOne(stor, query) ==
  LET results == Browser_find(stor, query).rets
  IN [coll |-> stor, ret |-> IF Len(results) > 0 THEN results[1] ELSE Null]

Browser_findById(stor, id) ==
  LET i == FindIndex(KeyIs(stor, "_id", id))
  IN [coll |-> stor, ret |-> IF i # 0 THEN Browser_toAppDocument(stor[i]) ELSE Null]

Browser_insertOne(stor, document, token) ==
  LET newDoc == Browser_toStorageDocument(document, token)
  IN [coll |-> Append(stor, newDoc), ret |-> Browser_toAppDocument(newDoc)]

\* The keys of the patch other than id and _id are written into the stored
\* object.
Browser_updateOne(stor, filter, update) ==
  LET index == FindIndex(KeyIs(stor, "_id", filter["id"]))
  IN IF index = 0 THEN [coll |-> stor, ret |-> Null]
     ELSE LET written == Spread(stor[index], Rest(Rest(update, "id"), "_id"))
          IN [coll |-> [stor EXCEPT ![index] = written], ret |-> Browser_toAppDocument(written)]

Browser_deleteOne(stor, filter) ==
  LET index == FindIndex(KeyIs(stor, "_id", filter["id"]))
  IN IF index = 0 THEN [coll |-> stor, ret |-> Null]
     ELSE [coll |-> Splice(stor, index), ret |-> Browser_toAppDocument(stor[index])]

Browser_count(stor, query) == Len(Browser_find(stor, query).rets)

\* ------------------------------------------------------------ the state
VARIABLES
  backend,     \* "memory" (mockMongoDB) or "local" (browserMongoDB)
  collection,  \* MongoDBCollection.collection, the in-memory record sequence
  storage,     \* BrowserMongoCollection.storage, records keyed by _id
  slot,        \* the localStorage slot browserMongo_<collectionName>
  mongo,       \* the documents of the external MongoDB collection
  table,       \* the rows of the PostgreSQL table
  warehouses,  \* the warehouses array of the in-memory store
  expenses,    \* the expenses array of the in-memory store
  forms,       \* the page sessions that are open (expense form, checkout)
  hook,        \* the state of one access hook instance
  orders,      \* mockData.orders, the array behind mockMongoDB.orders
  orderItems,  \* mockData.orderItems, the array behind mockMongoDB.orderItems
  payments,    \* the payments collection of the registry
  customers,   \* the customers collection of the registry
  manager,     \* which connection manager the process runs
  conn,        \* the manager's fields _status, _config, _error, _client, _db,
               \* and the pool of postgresDB
  pending,     \* the connect / disconnect calls suspended in the backend
  calls,       \* the calls concurrent callers have made on the collection
  finished,    \* the calls that returned, in the order in which they did
  base,        \* the stored sequence when the first of those calls was made
  last         \* the call the caller last made: operation, arguments, the
               \* result it holds, and the stored sequence before the call

vars == <<backend, collection, storage, slot, mongo, table, warehouses, expenses, forms, hook,
         orders, orderItems,
          payments, customers, manager, conn, pending, calls, finished, base, last>>

\* The state of one generic collection, of the external document store, and
\* of the order arrays.
crudVars == <<collection, storage, slot>>
docVars == <<mongo, table>>
orderVars == <<orders, orderItems>>
detailVars == <<payments, customers>>

\* The state a call on a single collection does not reach.
connVars == <<manager, conn, pending>>
asyncVars == <<calls, finished, base>>
pageVars == <<warehouses, expenses, forms, hook>>
sideVars == <<detailVars, connVars, asyncVars, pageVars>>

\* The registry's other collections, empty.
DetailIdle == payments = <<>> /\ customers = <<>>

\* No connection manager in use.
ConnIdle == manager = "none" /\ conn = <<>> /\ pending = <<>>

\* No concurrent calls.
AsyncIdle == calls = <<>> /\ finished = <<>> /\ base = <<>>
PageIdle == warehouses = <<>> /\ expenses = <<>> /\ forms = <<>> /\ hook = <<>>

SideIdle == DetailIdle /\ ConnIdle /\ AsyncIdle /\ PageIdle

Backends == {"memory", "local"}

EmptyRec == [k \in {} |-> ""]

NoCall == [op |-> "none", arg |-> EmptyRec, upd |-> EmptyRec, ret |-> Null,
           rets |-> <<>>, live |-> <<>>, n |-> 0, pre |-> <<>>]

\* The stored sequence of the running adapter, as the adapter holds it.
Stored == IF backend = "memory" THEN collection ELSE storage

\* A stored sequence as the public contract shows it.
View(b, s) == IF b = "memory" THEN s ELSE [i \in 1..Len(s) |-> Browser_toAppDocument(s[i])]

AppView == View(backend, Stored)

\* The ids carried by the records of a public view.
IdsOf(v) == {v[i]["id"] : i \in 1..Len(v)}

\* generateId / Math.random token: any token no stored record carries.
FreshTokens == GenIds \ IdsOf(AppView)

\* The operations of the running adapter.
Op_find(s, query) == IF backend = "memory" THEN Mock_find(s, query) ELSE Browser_find(s, query)
Op_findOne(s, query) == IF backend = "memory" THEN Mock_findOne(s, query) ELSE Browser_findOne(s, query)
Op_findById(s, id) == IF backend = "memory" THEN Mock_findById(s, id) ELSE Browser_findById(s, id)
Op_count(s, query) == IF backend = "memory" THEN Mock_count(s, query) ELSE Browser_count(s, query)

Init ==
  /\ backend \in Backends
  /\ collection = <<>>
  /\ storage = <<>>
  /\ slot = <<>>
  /\ mongo = <<>>
  /\ table = <<>>
  /\ orders = <<>>
  /\ orderItems = <<>>
  /\ SideIdle
  /\ last = NoCall

\* Installs the outcome r of a mutating call.
Commit(r) ==
  /\ UNCHANGED <<backend, sideVars, docVars, orderVars>>
  /\ IF backend = "memory"
     THEN collection' = r.coll /\ UNCHANGED <<storage, slot>>
     ELSE /\ storage' = r.coll
          /\ slot' = Browser_saveToLocalStorage(r.coll, slot, TRUE)
          /\ UNCHANGED collection

\* A caller makes its calls one after another; Called records one.
Called(op, arg, upd) ==
  [NoCall EXCEPT !.op = op, !.arg = arg, !.upd = upd, !.pre = Stored]

insertOne(document) ==
  /\ last.op = "none"
  /\ Len(Stored) < MaxLen
  /\ \E token \in FreshTokens :
       LET r == IF backend = "memory" THEN Mock_insertOne(collection, document, token)
                ELSE Browser_insertOne(storage, document, token)
       IN /\ Commit(r)
          /\ last' = [Called("insertOne", document, EmptyRec) EXCEPT !.ret = r.ret]

updateOne(id, update) ==
  /\ last.op = "none"
  /\ LET filter == [id |-> id]
         r == IF backend = "memory" THEN Mock_updateOne(collection, filter, update)
              ELSE Browser_updateOne(storage, filter, update)
     IN /\ Commit(r)
        /\ last' = [Called("updateOne", filter, update) EXCEPT !.ret = r.ret]

deleteOne(id) ==
  /\ last.op = "none"
  /\ LET filter == [id |-> id]
         r == IF backend = "memory" THEN Mock_deleteOne(collection, filter)
              ELSE Browser_deleteOne(storage, filter)
     IN /\ Commit(r)
        /\ last' = [Called("deleteOne", filter, EmptyRec) EXCEPT !.ret = r.ret]

find(query) ==
  /\ last.op = "none"
  /\ LET r == Op_find(Stored, query)
     IN /\ UNCHANGED <<backend, sideVars, crudVars, docVars, orderVars>>
        /\ last' = [Called("find", query, EmptyRec) EXCEPT !.rets = r.rets, !.live = r.live]

findOne(query) ==
  /\ last.op = "none"
  /\ LET r == Op_findOne(Stored, query)
     IN /\ UNCHANGED <<backend, sideVars, crudVars, docVars, orderVars>>
        /\ last' = [Called("findOne", query, EmptyRec) EXCEPT !.ret = r.ret]

findById(id) ==
  /\ last.op = "none"
  /\ LET r == Op_findById(Stored, id)
     IN /\ UNCHANGED <<backend, sideVars, crudVars, docVars, orderVars>>
        /\ last' = [Called("findById", [id |-> id], EmptyRec) EXCEPT !.ret = r.ret]

count(query) ==
  /\ last.op = "none"
  /\ UNCHANGED <<backend, sideVars, crudVars, docVars, orderVars>>
  /\ last' = [Called("count", query, EmptyRec) EXCEPT !.n = Op_count(Stored, query)]

\* The caller writes value v into field f of the k-th record it was handed.
\* A record that is the stored object itself (live[k] # 0) changes in the
\* store as well; a copy changes only in the caller's hands.
mutateReturned(k, f, v) ==
  /\ last.op \in {"find", "findOne", "findById", "insertOne", "updateOne", "deleteOne"}
  /\ IF last.op = "find"
     THEN /\ k \in 1..Len(last.rets)
          /\ LET changed == Spread(last.rets[k], [x \in {f} |-> v])
             IN /\ last' = [last EXCEPT !.op = "mutated", !.rets[k] = changed, !.pre = Stored]
                /\ IF last.live[k] # 0
                   THEN collection' = [collection EXCEPT ![last.live[k]] = changed]
                   ELSE UNCHANGED collection
     ELSE /\ k = 1
          /\ last.ret # Null
          /\ last' = [last EXCEPT !.op = "mutated", !.ret = Spread(last.ret, [x \in {f} |-> v]),
                                  !.pre = Stored]
          /\ UNCHANGED collection
  /\ UNCHANGED <<backend, sideVars, storage, slot, docVars, orderVars>>

\* The caller lets go of the result of its last call.
release ==
  /\ last.op # "none"
  /\ last' = NoCall
  /\ UNCHANGED <<backend, sideVars, crudVars, docVars, orderVars>>

Next ==
  \/ \E document \in Docs : insertOne(document)
  \/ \E id \in Ids, update \in Patches : updateOne(id, update)
  \/ \E id \in Ids : deleteOne(id)
  \/ \E query \in Queries : find(query)
  \/ \E query \in Queries : findOne(query)
  \/ \E id \in Ids : findById(id)
  \/ \E query \in Queries : count(query)
  \/ \E k \in 1..MaxLen, f \in MutFields : mutateReturned(k, f, MutValue)
  \/ release

Spec == Init /\ [][Next]_vars

\* ------------------------------------- external document-store adapter
\* Strings the driver accepts as the text of an ObjectId (24 hex characters).
HexIds == {"h1", "h2", "h3"}
\* Ids a caller looks up in the document store.
LookupIds == {"", "x"} \cup HexIds
\* Documents a caller inserts into the document store: entity records
\* without id.
NewDocs == {d \in DataRecs : "name" \in DOMAIN d}

\* An _id value is an ObjectId or a plain string; the two never compare equal.
ObjectId(hex) == [oid |-> hex]
PlainId(str) == [str |-> str]
\* _id.toString()
IdToString(v) == IF "oid" \in DOMAIN v THEN v["oid"] ELSE v["str"]

\* try { new ObjectId(id) } catch { use id as-is }
Real_objectId(id) == IF id \in HexIds THEN ObjectId(id) ELSE PlainId(id)

\* The driver's Collection.findOne(filter): index of the first document equal
\* to the filter on every key of the filter, 0 when none.
Driver_findOne(coll, filter) ==
  FindIndex([ix \in 1..Len(coll) |->
               \A k \in DOMAIN filter : k \in DOMAIN coll[ix] /\ coll[ix][k] = filter[k]])

\* The driver's Collection.insertOne(doc): a document without _id receives
\* the generated ObjectId.
Driver_insertOne(coll, doc, hex) ==
  Append(coll, IF "_id" \in DOMAIN doc THEN doc ELSE Spread(doc, [_id |-> ObjectId(hex)]))

\* toAppDocument: { id: _id.toString(), ...rest }
Real_toAppDocument(doc) == Spread([id |-> IdToString(doc["_id"])], Rest(doc, "_id"))

\* toMongoDocument of the ObjectId variant.
Real_toMongoDocument(doc) ==
  IF Truthy(doc, "id") THEN Spread(Rest(doc, "id"), [_id |-> Real_objectId(doc["id"])])
  ELSE Rest(doc, "id")

\* The query handed to the driver by find / findOne / count of the ObjectId
\* variant: _id is constrained only when query.id is truthy.
Real_mongoQuery(query) ==
  LET q == Rest(Real_toMongoDocument(query), "_id")
  IN IF Truthy(query, "id") THEN Spread(q, [_id |-> Real_objectId(query["id"])]) ELSE q

\* prepareMongoQuery of services/realMongoDB.ts: the id is passed as a string.
Node_prepareMongoQuery(query) ==
  LET result == Rest(query, "id")
  IN IF Truthy(query, "id") THEN Spread(result, [_id |-> PlainId(query["id"])]) ELSE result

Real_findOne(coll, query) ==
  LET i == Driver_findOne(coll, Real_mongoQuery(query))
  IN [coll |-> coll, ret |-> IF i # 0 THEN Real_toAppDocument(coll[i]) ELSE Null]

Node_findOne(coll, query) ==
  LET i == Driver_findOne(coll, Node_prepareMongoQuery(query))
  IN [coll |-> coll, ret |-> IF i # 0 THEN Real_toAppDocument(coll[i]) ELSE Null]

Real_findById(coll, id) ==
  LET i == Driver_findOne(coll, [_id |-> Real_objectId(id)])
  IN [coll |-> coll, ret |-> IF i # 0 THEN Real_toAppDocument(coll[i]) ELSE Null]

Node_findById(coll, id) ==
  LET i == Driver_findOne(coll, [_id |-> PlainId(id)])
  IN [coll |-> coll, ret |-> IF i # 0 THEN Real_toAppDocument(coll[i]) ELSE Null]

\* insertOne: the _id is always left to the driver; the new document is read
\* back by its insertedId.
Real_insertOne(coll, document, hex) ==
  LET mongoDoc == Rest(Real_toMongoDocument(document), "_id")
      after == Driver_insertOne(coll, mongoDoc, hex)
      i == Driver_findOne(after, [_id |-> ObjectId(hex)])
  IN [coll |-> after, ret |-> Real_toAppDocument(after[i])]

Node_insertOne(coll, document, hex) ==
  LET after == Driver_insertOne(coll, document, hex)
      i == Driver_findOne(after, [_id |-> ObjectId(hex)])
  IN [coll |-> after, ret |-> Real_toAppDocument(after[i])]

\* deleteOne: the document is read first and deleted in a second driver call.
Real_deleteOne(coll, filter) ==
  LET i == Driver_findOne(coll, [_id |-> Real_objectId(filter["id"])])
  IN IF i = 0 THEN [coll |-> coll, ret |-> Null]
     ELSE [coll |-> Splice(coll, i), ret |-> Real_toAppDocument(coll[i])]

Node_deleteOne(coll, filter) ==
  LET i == Driver_findOne(coll, [_id |-> PlainId(filter["id"])])
  IN IF i = 0 THEN [coll |-> coll, ret |-> Null]
     ELSE [coll |-> Splice(coll, i), ret |-> Real_toAppDocument(coll[i])]

DocBackends == {"document", "documentNode"}

\* ObjectIds the driver has not handed out to a stored document.
FreshHex == HexIds \ {IdToString(mongo[i]["_id"]) : i \in 1..Len(mongo)}

DocCalled(op, arg) == [NoCall EXCEPT !.op = op, !.arg = arg, !.pre = mongo]

InitDoc ==
  /\ backend \in DocBackends
  /\ collection = <<>>
  /\ storage = <<>>
  /\ slot = <<>>
  /\ mongo = <<>>
  /\ table = <<>>
  /\ orders = <<>>
  /\ orderItems = <<>>
  /\ SideIdle
  /\ last = NoCall

doc_insertOne(document) ==
  /\ last.op = "none"
  /\ Len(mongo) < MaxLen
  /\ \E hex \in FreshHex :
       LET r == IF backend = "document" THEN Real_insertOne(mongo, document, hex)
                ELSE Node_insertOne(mongo, document, hex)
       IN /\ mongo' = r.coll /\ UNCHANGED table
          /\ last' = [DocCalled("insertOne", document) EXCEPT !.ret = r.ret]
  /\ UNCHANGED <<backend, sideVars, crudVars, orderVars>>

doc_deleteOne(id) ==
  /\ last.op = "none"
  /\ LET r == IF backend = "document" THEN Real_deleteOne(mongo, [id |-> id])
              ELSE Node_deleteOne(mongo, [id |-> id])
     IN /\ mongo' = r.coll /\ UNCHANGED table
        /\ last' = [DocCalled("deleteOne", [id |-> id]) EXCEPT !.ret = r.ret]
  /\ UNCHANGED <<backend, sideVars, crudVars, orderVars>>

doc_findOne(query) ==
  /\ last.op = "none"
  /\ LET r == IF backend = "document" THEN Real_findOne(mongo, query)
              ELSE Node_findOne(mongo, query)
     IN last' = [DocCalled("findOne", query) EXCEPT !.ret = r.ret]
  /\ UNCHANGED <<backend, sideVars, crudVars, docVars, orderVars>>

doc_findById(id) ==
  /\ last.op = "none"
  /\ LET r == IF backend = "document" THEN Real_findById(mongo, id)
              ELSE Node_findById(mongo, id)
     IN last' = [DocCalled("findById", [id |-> id]) EXCEPT !.ret = r.ret]
  /\ UNCHANGED <<backend, sideVars, crudVars, docVars, orderVars>>

NextDoc ==
  \/ \E document \in NewDocs : doc_insertOne(document)
  \/ \E id \in LookupIds : doc_deleteOne(id)
  \/ \E query \in WithIds(DataRecs, LookupIds) : doc_findOne(query)
  \/ \E id \in LookupIds : doc_findById(id)
  \/ release

SpecDoc == InitDoc /\ [][NextDoc]_vars

\* ------------------------------------------- orders and their items
\* Largest number of items an order is created with; the orderItems array
\* holds at most one row more.
MaxItems == 2

\* Tokens of generateId() behind the prefixes ord_ and item_.
OrderTokens == {"ord_" \o ToString(n) : n \in 1..(MaxLen + 1)}
ItemTokens == {"item_" \o ToString(n) : n \in 1..(MaxItems + 1)}

\* The order a caller passes to createOrder, and the item rows it passes.
NewOrder == [customer_id |-> "c1"]
NewItem == [product_id |-> "p1"]
ItemLists == {[k \in 1..n |-> NewItem] : n \in 0..MaxItems}
\* Item documents a caller inserts through mockMongoDB.orderItems.
ItemDocs == WithIds({Spread(NewItem, [order_id |-> o]) : o \in OrderTokens}, {"item_1"})

\* The timestamp new Date().toISOString() yields.
Now == "now"

\* createOrder: pushes the order, then one row per item; tokens[1] is the
\* order's token, the following ones are the items' tokens.
Data_createOrder(ords, rows, order, items, orderId, itemIds) ==
  LET newOrder == Spread(order, [id |-> orderId, order_date |-> Now])
      newOrderItems == [k \in 1..Len(items) |->
                          Spread(items[k], [id |-> itemIds[k], order_id |-> orderId])]
  IN [orders |-> Append(ords, newOrder),
      orderItems |-> rows \o newOrderItems,
      ret |-> [order |-> newOrder, items |-> newOrderItems]]

\* The forEach of deleteOrder: for each row to remove, the first row carrying
\* that row's id is spliced out.
RECURSIVE RemoveEach(_, _)
RemoveEach(rows, itemsToRemove) ==
  IF itemsToRemove = <<>> THEN rows
  ELSE LET itemIndex == FindIndex(KeyIs(rows, "id", Head(itemsToRemove)["id"]))
       IN RemoveEach(IF itemIndex # 0 THEN Splice(rows, itemIndex) ELSE rows,
                     Tail(itemsToRemove))

\* deleteOrder: removes the first order carrying the id and its item rows; a
\* missing order rejects (ret absent, failed set).
Data_deleteOrder(ords, rows, id) ==
  LET index == FindIndex(KeyIs(ords, "id", id))
  IN IF index # 0
     THEN LET itemsToRemove == SelectSeq(rows, LAMBDA item : item["order_id"] = id)
          IN [orders |-> Splice(ords, index),
              orderItems |-> RemoveEach(rows, itemsToRemove),
              ret |-> ords[index], failed |-> FALSE]
     ELSE [orders |-> ords, orderItems |-> rows, ret |-> Null, failed |-> TRUE]

\* Sequences of n distinct tokens none of which a row carries.
FreshItemIds(n) ==
  {t \in [1..n -> ItemTokens \ IdsOf(orderItems)] : \A a, b \in 1..n : t[a] = t[b] => a = b}

OrderCalled(op, arg) ==
  [NoCall EXCEPT !.op = op, !.arg = arg, !.pre = <<orders, orderItems>>]

InitOrders ==
  /\ backend = "memory"
  /\ collection = <<>>
  /\ storage = <<>>
  /\ slot = <<>>
  /\ mongo = <<>>
  /\ table = <<>>
  /\ orders = <<>>
  /\ orderItems = <<>>
  /\ SideIdle
  /\ last = NoCall

createOrder(items) ==
  /\ last.op = "none"
  /\ Len(orders) < MaxLen
  /\ Len(orderItems) + Len(items) <= MaxItems + 1
  /\ \E orderId \in OrderTokens \ IdsOf(orders), itemIds \in FreshItemIds(Len(items)) :
       LET r == Data_createOrder(orders, orderItems, NewOrder, items, orderId, itemIds)
       IN /\ orders' = r.orders
          /\ orderItems' = r.orderItems
          /\ last' = [OrderCalled("createOrder", NewOrder) EXCEPT !.ret = r.ret.order,
                                                                  !.rets = r.ret.items]
  /\ UNCHANGED <<backend, sideVars, crudVars, docVars>>

deleteOrder(id) ==
  /\ last.op = "none"
  /\ LET r == Data_deleteOrder(orders, orderItems, id)
     IN /\ orders' = r.orders
        /\ orderItems' = r.orderItems
        /\ last' = [OrderCalled("deleteOrder", [id |-> id]) EXCEPT !.ret = r.ret]
  /\ UNCHANGED <<backend, sideVars, crudVars, docVars>>

\* mockMongoDB.orders.deleteOne({id})
orders_deleteOne(id) ==
  /\ last.op = "none"
  /\ LET r == Mock_deleteOne(orders, [id |-> id])
     IN /\ orders' = r.coll
        /\ last' = [OrderCalled("orders.deleteOne", [id |-> id]) EXCEPT !.ret = r.ret]
  /\ UNCHANGED <<backend, sideVars, crudVars, docVars, orderItems>>

\* mockMongoDB.orderItems.insertOne(document)
orderItems_insertOne(document) ==
  /\ last.op = "none"
  /\ Len(orderItems) < MaxItems + 1
  /\ \E token \in ItemTokens \ IdsOf(orderItems) :
       LET r == Mock_insertOne(orderItems, document, token)
       IN /\ orderItems' = r.coll
          /\ last' = [OrderCalled("orderItems.insertOne", document) EXCEPT !.ret = r.ret]
  /\ UNCHANGED <<backend, sideVars, crudVars, docVars, orders>>

\* mockMongoDB.orderItems.find({order_id})
orderItems_find(orderId) ==
  /\ last.op = "none"
  /\ LET r == Mock_find(orderItems, [order_id |-> orderId])
     IN last' = [OrderCalled("orderItems.find", [order_id |-> orderId])
                   EXCEPT !.rets = r.rets, !.live = r.live]
  /\ UNCHANGED <<backend, sideVars, crudVars, docVars, orderVars>>

NextOrders ==
  \/ \E items \in ItemLists : createOrder(items)
  \/ \E id \in OrderTokens : deleteOrder(id)
  \/ \E id \in OrderTokens : orders_deleteOne(id)
  \/ \E document \in ItemDocs : orderItems_insertOne(document)
  \/ \E id \in OrderTokens : orderItems_find(id)
  \/ release

SpecOrders == InitOrders /\ [][NextOrders]_vars

\* ------------------------------------------- the composite read
\* Largest number of order items the registry holds in the composite read.
MaxDetail == 2

\* Tokens the id generators hand out, per collection.
DetailOrderIds == {"o1", "o2"}
DetailItemIds == {"i" \o ToString(n) : n \in 1..MaxDetail}
DetailPaymentIds == {"y1", "y2"}
DetailCustomerIds == {"c1", "c2"}

\* Documents the callers insert: orders of customer c1, items and payments of
\* either order, customers.
DetailOrders == {[customer_id |-> "c1"]}
DetailItems == {[order_id |-> o] : o \in DetailOrderIds}
DetailPayments == {[order_id |-> o, status |-> "completed"] : o \in DetailOrderIds}
DetailCustomers == {[name |-> "a"]}

\* { ...order, items, payment, customer }
OrderDetails(order, items, payment, customer) ==
  [k \in (DOMAIN order) \cup {"items", "payment", "customer"} |->
     CASE k = "items" -> items
       [] k = "payment" -> payment
       [] k = "customer" -> customer
       [] OTHER -> order[k]]

\* Mutant of getOrderWithDetails: the items are not filtered by order_id.
Mut_Mock_getOrderWithDetails(ords, rows, pays, custs, orderId) ==
  LET order == Mock_findById(ords, orderId).ret
  IN IF order = Null THEN Null
     ELSE OrderDetails(order,
            Mock_find(rows, EmptyRec).rets,
            Mock_findOne(pays, [order_id |-> orderId]).ret,
            IF "customer_id" \in DOMAIN order
            THEN Mock_findById(custs, order["customer_id"]).ret ELSE Null)

\* mockMongoDB.getOrderWithDetails; an order without customer_id looks its
\* customer up under undefined, which no record carries.
Mock_getOrderWithDetails(ords, rows, pays, custs, orderId) ==
  LET order == Mock_findById(ords, orderId).ret
  IN IF order = Null THEN Null
     ELSE OrderDetails(order,
            Mock_find(rows, [order_id |-> orderId]).rets,
            Mock_findOne(pays, [order_id |-> orderId]).ret,
            IF "customer_id" \in DOMAIN order
            THEN Mock_findById(custs, order["customer_id"]).ret ELSE Null)

\* browserMongoDB.getOrderWithDetails; the three reads of Promise.all change
\* nothing, so their order does not show.
Browser_getOrderWithDetails(ords, rows, pays, custs, orderId) ==
  LET order == Browser_findById(ords, orderId).ret
  IN IF order = Null THEN Null
     ELSE OrderDetails(order,
            Browser_find(rows, [order_id |-> orderId]).rets,
            Browser_findOne(pays, [order_id |-> orderId]).ret,
            IF "customer_id" \in DOMAIN order
            THEN Browser_findById(custs, order["customer_id"]).ret ELSE Null)

\* insertOne of the running registry's collections.
Op_insertOne(s, document, token) ==
  IF backend = "memory" THEN Mock_insertOne(s, document, token)
  ELSE Browser_insertOne(s, document, token)

InitDetails ==
  /\ backend \in Backends
  /\ collection = <<>>
  /\ storage = <<>>
  /\ slot = <<>>
  /\ mongo = <<>>
  /\ table = <<>>
  /\ orders = <<>>
  /\ orderItems = <<>>
  /\ payments = <<>>
  /\ customers = <<>>
  /\ ConnIdle
  /\ PageIdle
  /\ AsyncIdle
  /\ last = NoCall

\* orders.insertOne(document)
details_insertOrder(document) ==
  /\ last.op = "none"
  /\ \E token \in DetailOrderIds \ IdsOf(View(backend, orders)) :
       orders' = Op_insertOne(orders, document, token).coll
  /\ UNCHANGED <<backend, connVars, pageVars, asyncVars, crudVars, docVars, orderItems, detailVars, last>>

\* orderItems.insertOne(document)
details_insertItem(document) ==
  /\ last.op = "none"
  /\ \E token \in DetailItemIds \ IdsOf(View(backend, orderItems)) :
       orderItems' = Op_insertOne(orderItems, document, token).coll
  /\ UNCHANGED <<backend, connVars, pageVars, asyncVars, crudVars, docVars, orders, detailVars, last>>

\* payments.insertOne(document)
details_insertPayment(document) ==
  /\ last.op = "none"
  /\ \E token \in DetailPaymentIds \ IdsOf(View(backend, payments)) :
       payments' = Op_insertOne(payments, document, token).coll
  /\ UNCHANGED <<backend, connVars, pageVars, asyncVars, crudVars, docVars, orderVars, customers, last>>

\* customers.insertOne(document)
details_insertCustomer(document) ==
  /\ last.op = "none"
  /\ \E token \in DetailCustomerIds \ IdsOf(View(backend, customers)) :
       customers' = Op_insertOne(customers, document, token).coll
  /\ UNCHANGED <<backend, connVars, pageVars, asyncVars, crudVars, docVars, orderVars, payments, last>>

getOrderWithDetails(orderId) ==
  /\ last.op = "none"
  /\ LET ret == IF backend = "memory"
                THEN Mock_getOrderWithDetails(orders, orderItems, payments, customers, orderId)
                ELSE Browser_getOrderWithDetails(orders, orderItems, payments, customers, orderId)
     IN last' = [NoCall EXCEPT !.op = "getOrderWithDetails", !.arg = [id |-> orderId],
                               !.ret = ret]
  /\ UNCHANGED <<backend, connVars, pageVars, asyncVars, crudVars, docVars, orderVars, detailVars>>

NextDetails ==
  \/ \E document \in DetailOrders : details_insertOrder(document)
  \/ \E document \in DetailItems : details_insertItem(document)
  \/ \E document \in DetailPayments : details_insertPayment(document)
  \/ \E document \in DetailCustomers : details_insertCustomer(document)
  \/ \E orderId \in DetailOrderIds : getOrderWithDetails(orderId)
  \/ release

SpecDetails == InitDetails /\ [][NextDetails]_vars

\* ------------------------------------------- the connection managers
\* Largest number of connect / disconnect calls in flight at once.
MaxCalls == 2

\* The connection managers: DatabaseConnection over PostgreSQL,
\* MongoDBConnection in the browser and under Node, and the mock
\* DatabaseConnection.
Managers == {"postgres", "mongoBrowser", "mongoNode", "mock"}

\* null, as a field of the manager holds it.
NullValue == "null"

Configs == {"cfgA", "cfgB"}

\* What a backend step can end with: success, or one of the failure causes.
Causes == {"e1", "e2"}
Outcomes == {"ok"} \cup Causes

\* The manager as constructed; pool is the module variable of postgresDB.
NewConnection ==
  [status |-> "disconnected", config |-> NullValue, error |-> NullValue,
   client |-> NullValue, db |-> NullValue, pool |-> NullValue]

\* Mutant of the catch block of connect: the status is not set.
Mut_Conn_connectFailed(c, cause) == [c EXCEPT !.error = cause]

\* The catch block of connect.
Conn_connectFailed(c, cause) == [c EXCEPT !.status = "error", !.error = cause]

\* connect up to its first suspension. PostgreSQL and the browser run to the
\* end; Node suspends in client.connect(), the mock in its timer. done tells
\* whether the call has returned, ret what it returned.
Conn_connect(kind, c, cfg, outcome) ==
  LET c1 == [c EXCEPT !.status = "connecting", !.config = cfg]
  IN CASE kind = "postgres" ->
            IF outcome = "ok"
            THEN [conn |-> [c1 EXCEPT !.pool = "pool", !.status = "connected",
                                      !.error = NullValue],
                  done |-> TRUE, ret |-> TRUE]
            ELSE [conn |-> Conn_connectFailed(c1, outcome), done |-> TRUE, ret |-> FALSE]
       [] kind = "mongoBrowser" ->
            [conn |-> [c1 EXCEPT !.client = "client", !.db = "db",
                                 !.status = "connected", !.error = NullValue],
             done |-> TRUE, ret |-> TRUE]
       [] kind = "mongoNode" ->
            IF outcome = "ok"
            THEN [conn |-> [c1 EXCEPT !.client = "client"], done |-> FALSE, ret |-> FALSE]
            ELSE [conn |-> Conn_connectFailed(c1, outcome), done |-> TRUE, ret |-> FALSE]
       [] OTHER -> [conn |-> c1, done |-> FALSE, ret |-> FALSE]

\* connect after its suspension. Under Node this._client.db(...) raises a
\* TypeError when this._client has been set to null meanwhile.
Conn_connectResume(kind, c, outcome) ==
  IF kind = "mongoNode" /\ (outcome # "ok" \/ c.client = NullValue)
  THEN [conn |-> Conn_connectFailed(c, IF outcome # "ok" THEN outcome ELSE "TypeError"),
        ret |-> FALSE]
  ELSE [conn |-> [c EXCEPT !.db = IF kind = "mongoNode" THEN "db" ELSE @,
                           !.status = "connected", !.error = NullValue],
        ret |-> TRUE]

\* Mutant of disconnect: the guard on the status is missing.
Mut_Conn_disconnect(kind, c) ==
  IF kind \in {"mongoBrowser", "mongoNode"} /\ c.client = NullValue
  THEN [conn |-> c, done |-> TRUE, ret |-> TRUE]
  ELSE IF kind = "mongoBrowser"
  THEN [conn |-> [c EXCEPT !.status = "disconnected", !.client = NullValue,
                           !.db = NullValue],
        done |-> TRUE, ret |-> TRUE]
  ELSE [conn |-> c, done |-> FALSE, ret |-> FALSE]

\* disconnect up to its first suspension: a no-op returning true unless the
\* status is connected (and, for MongoDBConnection, a client is set); the
\* browser closes nothing and runs to the end, the others suspend in the
\* close (closePostgres, client.close(), the timer).
Conn_disconnect(kind, c) ==
  IF c.status # "connected"
     \/ (kind \in {"mongoBrowser", "mongoNode"} /\ c.client = NullValue)
  THEN [conn |-> c, done |-> TRUE, ret |-> TRUE]
  ELSE IF kind = "mongoBrowser"
  THEN [conn |-> [c EXCEPT !.status = "disconnected", !.client = NullValue,
                           !.db = NullValue],
        done |-> TRUE, ret |-> TRUE]
  ELSE [conn |-> c, done |-> FALSE, ret |-> FALSE]

\* disconnect after the close. closePostgres sets pool to null when it found a
\* pool at its call (hadPool); a failed close stores the cause and leaves the
\* rest.
Conn_disconnectResume(kind, c, hadPool, outcome) ==
  IF outcome # "ok"
  THEN [conn |-> [c EXCEPT !.error = outcome], ret |-> FALSE]
  ELSE [conn |-> CASE kind = "postgres" ->
                        [c EXCEPT !.status = "disconnected",
                                  !.pool = IF hadPool THEN NullValue ELSE @]
                   [] kind = "mongoNode" ->
                        [c EXCEPT !.status = "disconnected", !.client = NullValue,
                                  !.db = NullValue]
                   [] OTHER -> [c EXCEPT !.status = "disconnected"],
        ret |-> TRUE]

\* The assignments of reset.
Conn_reset(c) ==
  [c EXCEPT !.status = "disconnected", !.config = NullValue, !.error = NullValue]

\* Whether a close of the manager can fail: pool.end() and client.close()
\* can, the mock's timer cannot, and closePostgres without a pool does nothing.
CloseOutcomes(kind, hadPool) ==
  IF kind = "mock" \/ (kind = "postgres" /\ ~hadPool) THEN {"ok"} ELSE Outcomes

\* Whether the connect of the manager can fail at its start and after its
\* suspension.
ConnectOutcomes(kind) ==
  IF kind \in {"mongoBrowser", "mock"} THEN {"ok"} ELSE Outcomes
ConnectResumeOutcomes(kind) ==
  IF kind = "mock" THEN {"ok"} ELSE Outcomes

\* A call suspended in the backend. alone: no other call of the manager has
\* run a step since this one was made.
Suspended(op, cfg, hadPool, awaited) ==
  [op |-> op, cfg |-> cfg, hadPool |-> hadPool, awaited |-> awaited,
   alone |-> awaited /\ pending = <<>>]

\* The calls in flight, after another call has run a step.
Disturbed(cs) == [i \in 1..Len(cs) |-> [cs[i] EXCEPT !.alone = FALSE]]

\* The step a call of the manager has just run: the operation, whether the
\* step resumed a suspended call, how the backend answered, whether the call
\* returned with the step and what it returned, whether the call ran alone,
\* and the manager before the step.
ConnStep(op, cfg, resumed, outcome, r, alone) ==
  [op |-> op, arg |-> cfg, resumed |-> resumed, outcome |-> outcome,
   done |-> resumed \/ r.done, ret |-> r.ret, alone |-> alone, pre |-> conn]

connUnchanged == <<backend, crudVars, docVars, orderVars, detailVars, asyncVars, pageVars>>

InitConn ==
  /\ backend = "memory"
  /\ collection = <<>>
  /\ storage = <<>>
  /\ slot = <<>>
  /\ mongo = <<>>
  /\ table = <<>>
  /\ orders = <<>>
  /\ orderItems = <<>>
  /\ DetailIdle
  /\ manager \in Managers
  /\ conn = NewConnection
  /\ pending = <<>>
  /\ AsyncIdle
  /\ PageIdle
  /\ last = NoCall

connect(cfg, outcome) ==
  /\ outcome \in ConnectOutcomes(manager)
  /\ LET r == Conn_connect(manager, conn, cfg, outcome)
     IN /\ r.done \/ Len(pending) < MaxCalls
        /\ conn' = r.conn
        /\ pending' = IF r.done THEN Disturbed(pending)
                      ELSE Append(Disturbed(pending), Suspended("connect", cfg, FALSE, TRUE))
        /\ last' = ConnStep("connect", cfg, FALSE, outcome, r, pending = <<>>)
  /\ UNCHANGED <<connUnchanged, manager>>

connect_resume(i, outcome) ==
  /\ i \in 1..Len(pending)
  /\ pending[i].op = "connect"
  /\ outcome \in ConnectResumeOutcomes(manager)
  /\ LET r == Conn_connectResume(manager, conn, outcome)
     IN /\ conn' = r.conn
        /\ pending' = Disturbed(Splice(pending, i))
        /\ last' = ConnStep("connect", pending[i].cfg, TRUE, outcome, r, pending[i].alone)
  /\ UNCHANGED <<connUnchanged, manager>>

disconnect ==
  /\ LET r == Conn_disconnect(manager, conn)
     IN /\ r.done \/ Len(pending) < MaxCalls
        /\ conn' = r.conn
        /\ pending' = IF r.done THEN Disturbed(pending)
                      ELSE Append(Disturbed(pending),
                                  Suspended("disconnect", NullValue, conn.pool # NullValue, TRUE))
        /\ last' = ConnStep("disconnect", NullValue, FALSE, "ok", r, pending = <<>>)
  /\ UNCHANGED <<connUnchanged, manager>>

disconnect_resume(i, outcome) ==
  /\ i \in 1..Len(pending)
  /\ pending[i].op = "disconnect"
  /\ outcome \in CloseOutcomes(manager, pending[i].hadPool)
  /\ LET r == Conn_disconnectResume(manager, conn, pending[i].hadPool, outcome)
     IN /\ conn' = r.conn
        /\ pending' = Disturbed(Splice(pending, i))
        /\ last' = ConnStep(IF pending[i].awaited THEN "disconnect" ELSE "close",
                            NullValue, TRUE, outcome, r, pending[i].alone)
  /\ UNCHANGED <<connUnchanged, manager>>

\* reset: MongoDBConnection first calls disconnect() without awaiting it,
\* the other managers only assign.
reset ==
  /\ LET r == IF manager \in {"mongoBrowser", "mongoNode"}
              THEN Conn_disconnect(manager, conn)
              ELSE [conn |-> conn, done |-> TRUE, ret |-> TRUE]
     IN /\ r.done \/ Len(pending) < MaxCalls
        /\ conn' = Conn_reset(r.conn)
        /\ pending' = IF r.done THEN Disturbed(pending)
                      ELSE Append(Disturbed(pending),
                                  Suspended("disconnect", NullValue, FALSE, FALSE))
        /\ last' = ConnStep("reset", NullValue, FALSE, "ok", [done |-> TRUE, ret |-> TRUE],
                            pending = <<>>)
  /\ UNCHANGED <<connUnchanged, manager>>

NextConn ==
  \/ \E cfg \in Configs, outcome \in Outcomes : connect(cfg, outcome)
  \/ \E i \in 1..MaxCalls, outcome \in Outcomes : connect_resume(i, outcome)
  \/ disconnect
  \/ \E i \in 1..MaxCalls, outcome \in Outcomes : disconnect_resume(i, outcome)
  \/ reset

SpecConn == InitConn /\ [][NextConn]_vars

\* ------------------------------------------- the two adapters side by side
\* The in-memory adapter (collection) and the local-persisted adapter
\* (storage, slot) receive the same calls; a call's log holds both results.
Paired(op, arg, upd, a, b) ==
  [NoCall EXCEPT !.op = op, !.arg = arg, !.upd = upd,
                 !.ret = [memory |-> a, local |-> b]]

\* Tokens no record of either adapter carries.
PairTokens == GenIds \ (IdsOf(collection) \cup IdsOf(View("local", storage)))

pairUnchanged == <<backend, docVars, orderVars, sideVars>>

\* The comparison runs while the two adapters hold equal records: the first
\* call after which they differ ends it.
PairAgree == collection = View("local", storage)

InitPair ==
  /\ backend = "both"
  /\ collection = <<>>
  /\ storage = <<>>
  /\ slot = <<>>
  /\ mongo = <<>>
  /\ table = <<>>
  /\ orders = <<>>
  /\ orderItems = <<>>
  /\ SideIdle
  /\ last = NoCall

pair_insertOne(document) ==
  /\ last.op = "none" /\ PairAgree
  /\ Len(collection) < MaxLen /\ Len(storage) < MaxLen
  /\ \E token \in PairTokens :
       LET a == Mock_insertOne(collection, document, token)
           b == Browser_insertOne(storage, document, token)
       IN /\ collection' = a.coll
          /\ storage' = b.coll
          /\ slot' = Browser_saveToLocalStorage(b.coll, slot, TRUE)
          /\ last' = Paired("insertOne", document, EmptyRec, a.ret, b.ret)
  /\ UNCHANGED pairUnchanged

pair_updateOne(id, update) ==
  /\ last.op = "none" /\ PairAgree
  /\ LET a == Mock_updateOne(collection, [id |-> id], update)
         b == Browser_updateOne(storage, [id |-> id], update)
     IN /\ collection' = a.coll
        /\ storage' = b.coll
        /\ slot' = Browser_saveToLocalStorage(b.coll, slot, TRUE)
        /\ last' = Paired("updateOne", [id |-> id], update, a.ret, b.ret)
  /\ UNCHANGED pairUnchanged

pair_deleteOne(id) ==
  /\ last.op = "none" /\ PairAgree
  /\ LET a == Mock_deleteOne(collection, [id |-> id])
         b == Browser_deleteOne(storage, [id |-> id])
     IN /\ collection' = a.coll
        /\ storage' = b.coll
        /\ slot' = Browser_saveToLocalStorage(b.coll, slot, TRUE)
        /\ last' = Paired("deleteOne", [id |-> id], EmptyRec, a.ret, b.ret)
  /\ UNCHANGED pairUnchanged

pair_find(query) ==
  /\ last.op = "none" /\ PairAgree
  /\ last' = Paired("find", query, EmptyRec,
                    Mock_find(collection, query).rets, Browser_find(storage, query).rets)
  /\ UNCHANGED <<pairUnchanged, crudVars>>

pair_findOne(query) ==
  /\ last.op = "none" /\ PairAgree
  /\ last' = Paired("findOne", query, EmptyRec,
                    Mock_findOne(collection, query).ret, Browser_findOne(storage, query).ret)
  /\ UNCHANGED <<pairUnchanged, crudVars>>

pair_findById(id) ==
  /\ last.op = "none" /\ PairAgree
  /\ last' = Paired("findById", [id |-> id], EmptyRec,
                    Mock_findById(collection, id).ret, Browser_findById(storage, id).ret)
  /\ UNCHANGED <<pairUnchanged, crudVars>>

pair_count(query) ==
  /\ last.op = "none" /\ PairAgree
  /\ last' = Paired("count", query, EmptyRec,
                    Mock_count(collection, query), Browser_count(storage, query))
  /\ UNCHANGED <<pairUnchanged, crudVars>>

NextPair ==
  \/ \E document \in Docs : pair_insertOne(document)
  \/ \E id \in Ids, update \in Patches : pair_updateOne(id, update)
  \/ \E id \in Ids : pair_deleteOne(id)
  \/ \E query \in Queries : pair_find(query)
  \/ \E query \in Queries : pair_findOne(query)
  \/ \E id \in Ids : pair_findById(id)
  \/ \E query \in Queries : pair_count(query)
  \/ release

SpecPair == InitPair /\ [][NextPair]_vars

\* ------------------------------------------- calls in flight on a collection
\* Largest number of calls in flight on the collection at once.
MaxConc == 2

\* What the concurrent callers pass: documents with and without id, ids, and
\* patches that set name, name and stock, or name and id.
AsyncDocs == {[name |-> "a", id |-> "x"], [name |-> "a", stock |-> "1"]}
AsyncIds == {"x", "g1"}
AsyncPatches == {[name |-> "a"], [name |-> "b", stock |-> "1"], [name |-> "b", id |-> ""]}

\* A call as its caller made it; token is the value the id generator yields
\* for an insertOne. pc is "timer" while the call waits in its simulated delay.
AsyncCall(op, arg, upd, token) ==
  [op |-> op, arg |-> arg, upd |-> upd, token |-> token, pc |-> "timer", ret |-> Null]

\* The synchronous body of a call, run on a stored sequence.
SerialOp(kind, s, call) ==
  CASE call.op = "insertOne" ->
         IF kind = "memory" THEN Mock_insertOne(s, call.arg, call.token)
         ELSE Browser_insertOne(s, call.arg, call.token)
    [] call.op = "updateOne" ->
         IF kind = "memory" THEN Mock_updateOne(s, call.arg, call.upd)
         ELSE Browser_updateOne(s, call.arg, call.upd)
    [] OTHER ->
         IF kind = "memory" THEN Mock_deleteOne(s, call.arg)
         ELSE Browser_deleteOne(s, call.arg)

\* Mutant of the body: it works on the records as they were when the calls
\* were made.
Mut_Async_body(s, call) == SerialOp(backend, base, call)

\* The body of a call runs on the stored sequence as it is when the body
\* starts, and has no suspension point before it returns.
Async_body(s, call) == SerialOp(backend, s, call)

\* The calls that have returned.
AllDone == \A i \in 1..Len(calls) : calls[i].pc = "done"

\* Tokens no stored record and no call in flight carries.
AsyncTokens == FreshTokens \ {calls[i].token : i \in 1..Len(calls)}

asyncUnchanged == <<backend, docVars, orderVars, detailVars, connVars, pageVars>>

InitAsync ==
  /\ backend \in Backends
  /\ collection = <<>>
  /\ storage = <<>>
  /\ slot = <<>>
  /\ mongo = <<>>
  /\ table = <<>>
  /\ orders = <<>>
  /\ orderItems = <<>>
  /\ SideIdle
  /\ calls = <<>>
  /\ finished = <<>>
  /\ base = <<>>
  /\ last = NoCall

\* Installs the outcome r of the body of call i, which returns with it.
AsyncCommit(i, cs, r) ==
  /\ IF backend = "memory"
     THEN collection' = r.coll /\ UNCHANGED <<storage, slot>>
     ELSE /\ storage' = r.coll
          /\ slot' = Browser_saveToLocalStorage(r.coll, slot, TRUE)
          /\ UNCHANGED collection
  /\ calls' = [cs EXCEPT ![i] = [@ EXCEPT !.pc = "done", !.ret = r.ret]]
  /\ finished' = Append(finished, i)

\* A caller makes a call while others are in flight. The in-memory adapter
\* suspends it in its timer; the local-persisted adapter has no await and
\* runs the body within the call.
async_call(op, arg, upd) ==
  /\ Len(calls) < MaxConc
  /\ op = "insertOne" =>
       Len(Stored) + Cardinality({i \in 1..Len(calls) :
                                    calls[i].op = "insertOne" /\ calls[i].pc = "timer"}) < MaxLen
  /\ \E token \in IF op = "insertOne" THEN AsyncTokens ELSE {""} :
       LET call == AsyncCall(op, arg, upd, token)
           cs == Append(calls, call)
       IN IF backend = "memory"
          THEN calls' = cs /\ UNCHANGED <<crudVars, finished>>
          ELSE AsyncCommit(Len(cs), cs, Async_body(Stored, call))
  /\ base' = IF calls = <<>> THEN Stored ELSE base
  /\ UNCHANGED <<asyncUnchanged, last>>

\* The timer of call i fires: its body runs and the call returns.
async_body(i) ==
  /\ i \in 1..Len(calls)
  /\ calls[i].pc = "timer"
  /\ AsyncCommit(i, calls, Async_body(Stored, calls[i]))
  /\ UNCHANGED <<asyncUnchanged, base, last>>

\* All calls have returned; the callers go on to their next calls.
async_settle ==
  /\ calls # <<>> /\ AllDone
  /\ calls' = <<>>
  /\ finished' = <<>>
  /\ base' = <<>>
  /\ UNCHANGED <<asyncUnchanged, crudVars, last>>

NextAsync ==
  \/ \E document \in AsyncDocs : async_call("insertOne", document, EmptyRec)
  \/ \E id \in AsyncIds, update \in AsyncPatches : async_call("updateOne", [id |-> id], update)
  \/ \E id \in AsyncIds : async_call("deleteOne", [id |-> id], EmptyRec)
  \/ \E i \in 1..MaxConc : async_body(i)
  \/ async_settle

SpecAsync == InitAsync /\ [][NextAsync]_vars

\* ------------------------------------------- concurrent deletes, external
\* The external adapters of the race: the ObjectId variant and the Node
\* variant of the document store, and the PostgreSQL table.
RaceBackends == {"document", "documentNode", "relational"}

\* Documents found in the external collection, written through the adapter
\* (the driver assigns an ObjectId) or by another client under a string _id.
RaceDocs == {[name |-> "a"], [name |-> "a", _id |-> PlainId("x")]}

\* Ids of the rows of the table, and the ids the concurrent callers delete.
RowIds == {"r1", "r2"}
RaceIds == {"h1", "x", "r1"}

\* The driver's Collection.deleteOne(filter): the first matching document is
\* removed; deletedCount tells whether there was one.
Driver_deleteOne(coll, filter) ==
  LET i == Driver_findOne(coll, filter)
  IN IF i = 0 THEN [coll |-> coll, deletedCount |-> 0]
     ELSE [coll |-> Splice(coll, i), deletedCount |-> 1]

\* The filter deleteOne hands to the driver in both of its steps.
Race_filter(kind, id) ==
  IF kind = "document" THEN [_id |-> Real_objectId(id)] ELSE [_id |-> PlainId(id)]

\* First step of deleteOne: docToDelete = await collection.findOne(filter).
Race_findOne(kind, coll, id) ==
  LET i == Driver_findOne(coll, Race_filter(kind, id))
  IN IF i = 0 THEN Null ELSE coll[i]

\* Mutant of the return of deleteOne: absent when the delete removed nothing.
Mut_Race_return(docToDelete, result) ==
  IF result.deletedCount = 0 THEN Null ELSE Real_toAppDocument(docToDelete)

\* What deleteOne returns after its second step: the document as it was
\* read; the result of the delete is only checked for acknowledged.
Race_return(docToDelete, result) == Real_toAppDocument(docToDelete)

\* PostgresTable.deleteOne: DELETE ... WHERE id = $1 RETURNING *, one
\* statement; result[0] or absent.
Pg_deleteOne(rows, filter) ==
  LET result == SelectSeq(rows, LAMBDA row : row["id"] = filter["id"])
  IN [coll |-> SelectSeq(rows, LAMBDA row : row["id"] # filter["id"]),
      ret |-> IF Len(result) > 0 THEN result[1] ELSE Null]

\* A deleteOne call in flight: the id, the step it is about to run, the
\* document its first step read, whether another call's delete ran between
\* its two steps, and what it returned.
RaceCall(id) ==
  [id |-> id, pc |-> IF backend = "relational" THEN "query" ELSE "findOne",
   docToDelete |-> Null, between |-> FALSE, ret |-> Null]

\* The external store the race runs on.
RaceStore == IF backend = "relational" THEN table ELSE mongo

raceUnchanged == <<backend, crudVars, orderVars, detailVars, connVars, pageVars, last>>

InitRace ==
  /\ backend \in RaceBackends
  /\ collection = <<>>
  /\ storage = <<>>
  /\ slot = <<>>
  /\ mongo = <<>>
  /\ table = <<>>
  /\ orders = <<>>
  /\ orderItems = <<>>
  /\ DetailIdle
  /\ ConnIdle
  /\ PageIdle
  /\ AsyncIdle
  /\ last = NoCall

\* A document or a row is written to the external store while no delete is
\* in flight.
race_store(doc) ==
  /\ calls = <<>>
  /\ Len(RaceStore) < MaxLen
  /\ IF backend = "relational"
     THEN /\ \E id \in RowIds \ IdsOf(table) :
               table' = Append(table, Spread(Rest(doc, "_id"), [id |-> id]))
          /\ UNCHANGED mongo
     ELSE /\ \E hex \in HexIds \ {IdToString(mongo[i]["_id"]) : i \in 1..Len(mongo)} :
               /\ "_id" \in DOMAIN doc => Driver_findOne(mongo, [_id |-> doc["_id"]]) = 0
               /\ mongo' = Driver_insertOne(mongo, doc, hex)
          /\ UNCHANGED table
  /\ UNCHANGED <<raceUnchanged, asyncVars>>

\* A caller calls deleteOne({id}).
race_call(id) ==
  /\ Len(calls) < MaxConc
  /\ calls' = Append(calls, RaceCall(id))
  /\ base' = IF calls = <<>> THEN RaceStore ELSE base
  /\ UNCHANGED <<raceUnchanged, mongo, table, finished>>

\* First backend step of call i in the document store.
race_findOne(i) ==
  /\ i \in 1..Len(calls)
  /\ calls[i].pc = "findOne"
  /\ LET docToDelete == Race_findOne(backend, mongo, calls[i].id)
     IN IF docToDelete = Null
        THEN /\ calls' = [calls EXCEPT ![i] = [@ EXCEPT !.pc = "done"]]
             /\ finished' = Append(finished, i)
        ELSE /\ calls' = [calls EXCEPT ![i] = [@ EXCEPT !.pc = "deleteOne",
                                                        !.docToDelete = docToDelete]]
             /\ UNCHANGED finished
  /\ UNCHANGED <<raceUnchanged, mongo, table, base>>

\* Second backend step of call i in the document store; the call returns.
race_deleteOne(i) ==
  /\ i \in 1..Len(calls)
  /\ calls[i].pc = "deleteOne"
  /\ LET result == Driver_deleteOne(mongo, Race_filter(backend, calls[i].id))
     IN /\ mongo' = result.coll
        /\ calls' = [j \in 1..Len(calls) |->
                       IF j = i
                       THEN [calls[j] EXCEPT !.pc = "done",
                                             !.ret = Race_return(calls[i].docToDelete, result)]
                       ELSE IF calls[j].pc = "deleteOne" /\ calls[j].id = calls[i].id
                       THEN [calls[j] EXCEPT !.between = TRUE]
                       ELSE calls[j]]
  /\ finished' = Append(finished, i)
  /\ UNCHANGED <<raceUnchanged, table, base>>

\* The statement of call i runs in PostgreSQL; the call returns.
race_query(i) ==
  /\ i \in 1..Len(calls)
  /\ calls[i].pc = "query"
  /\ LET r == Pg_deleteOne(table, [id |-> calls[i].id])
     IN /\ table' = r.coll
        /\ calls' = [calls EXCEPT ![i] = [@ EXCEPT !.pc = "done", !.ret = r.ret]]
  /\ finished' = Append(finished, i)
  /\ UNCHANGED <<raceUnchanged, mongo, base>>

\* All deletes have returned.
race_settle ==
  /\ calls # <<>> /\ AllDone
  /\ calls' = <<>>
  /\ finished' = <<>>
  /\ base' = <<>>
  /\ UNCHANGED <<raceUnchanged, mongo, table>>

NextRace ==
  \/ \E doc \in RaceDocs : race_store(doc)
  \/ \E id \in RaceIds : race_call(id)
  \/ \E i \in 1..MaxConc : race_findOne(i)
  \/ \E i \in 1..MaxConc : race_deleteOne(i)
  \/ \E i \in 1..MaxConc : race_query(i)
  \/ race_settle

SpecRace == InitRace /\ [][NextRace]_vars


\* Two deleteOne(id) calls on the document store, as the steps of one
\* schedule: the collection, the step each call is at (0 before findOne, 1
\* before the driver's deleteOne, 2 returned), the documents read, whether
\* the other call's delete ran between a call's two steps, and the returns.
RaceStart(coll) ==
  [coll |-> coll, step |-> <<0, 0>>, docToDelete |-> <<Null, Null>>,
   between |-> <<FALSE, FALSE>>, ret |-> <<Null, Null>>]

\* The next backend step of call c.
RaceStep(kind, id, c, st) ==
  IF st.step[c] = 0
  THEN LET docToDelete == Race_findOne(kind, st.coll, id)
       IN [st EXCEPT !.step[c] = IF docToDelete = Null THEN 2 ELSE 1,
                     !.docToDelete[c] = docToDelete]
  ELSE IF st.step[c] = 1
  THEN LET result == Driver_deleteOne(st.coll, Race_filter(kind, id))
       IN [st EXCEPT !.coll = result.coll,
                     !.step[c] = 2,
                     !.ret[c] = Race_return(st.docToDelete[c], result),
                     !.between = [j \in 1..2 |->
                                    IF j # c /\ st.step[j] = 1 THEN TRUE ELSE @[j]]]
  ELSE st

\* The orders in which the event loop can run the four steps of two calls.
RaceSchedules == {s \in [1..4 -> 1..2] : Cardinality({k \in 1..4 : s[k] = 1}) = 2}

RECURSIVE RaceRun(_, _, _, _)
RaceRun(kind, id, sched, st) ==
  IF sched = <<>> THEN st
  ELSE RaceRun(kind, id, Tail(sched), RaceStep(kind, id, Head(sched), st))

\* What two concurrent deleteOne(id) calls can come to on collection coll.
RaceOutcomes(kind, coll, id) ==
  {RaceRun(kind, id, sched, RaceStart(coll)) : sched \in RaceSchedules}


\* ------------------------------------------- backend failures, external
\* The driver's Collection.find(filter).toArray() and countDocuments(filter).
Driver_find(coll, filter) ==
  SelectSeq(coll, LAMBDA doc : \A k \in DOMAIN filter : k \in DOMAIN doc /\ doc[k] = filter[k])

\* The driver's Collection.updateOne(filter, { $set: set }).
Driver_updateOne(coll, filter, set) ==
  LET i == Driver_findOne(coll, filter)
  IN IF i = 0 THEN coll ELSE [coll EXCEPT ![i] = Spread(@, set)]

\* The query find / findOne / count hand to the driver.
Doc_query(kind, query) ==
  IF kind = "document" THEN Real_mongoQuery(query) ELSE Node_prepareMongoQuery(query)

\* The _id filter findById / updateOne / deleteOne hand to the driver.
Doc_idFilter(kind, id) ==
  IF kind = "document" THEN [_id |-> Real_objectId(id)] ELSE [_id |-> PlainId(id)]

\* The outcome of a call: the collection after it, whether the backend
\* raised during it, whether the call failed (its promise rejected), and
\* the value it returned otherwise.
Returned(coll, raised, ret) == [coll |-> coll, raised |-> raised, failed |-> FALSE, ret |-> ret]
Thrown(coll) == [coll |-> coll, raised |-> TRUE, failed |-> TRUE, ret |-> Null]

\* In the operations below, raise is the driver call of the operation at
\* which the backend raises, counted from 1; 0 when it does not raise.

\* find: catch (err) { return [] }
Try_find(kind, coll, query, raise) ==
  IF raise = 1 THEN Returned(coll, TRUE, <<>>)
  ELSE LET docs == Driver_find(coll, Doc_query(kind, query))
       IN Returned(coll, FALSE, [i \in 1..Len(docs) |-> Real_toAppDocument(docs[i])])

\* count: catch (err) { return 0 }
Try_count(kind, coll, query, raise) ==
  IF raise = 1 THEN Returned(coll, TRUE, 0)
  ELSE Returned(coll, FALSE, Len(Driver_find(coll, Doc_query(kind, query))))

\* findOne: catch (err) { return null }
Try_findOne(kind, coll, query, raise) ==
  IF raise = 1 THEN Returned(coll, TRUE, Null)
  ELSE Returned(coll, FALSE,
                IF kind = "document" THEN Real_findOne(coll, query).ret
                ELSE Node_findOne(coll, query).ret)

\* findById: catch (err) { return null }
Try_findById(kind, coll, id, raise) ==
  IF raise = 1 THEN Returned(coll, TRUE, Null)
  ELSE Returned(coll, FALSE,
                IF kind = "document" THEN Real_findById(coll, id).ret
                ELSE Node_findById(coll, id).ret)

\* insertOne: the driver's insertOne, then findOne of the insertedId;
\* catch (err) { throw err }
Try_insertOne(kind, coll, document, hex, raise) ==
  LET r == IF kind = "document" THEN Real_insertOne(coll, document, hex)
           ELSE Node_insertOne(coll, document, hex)
  IN IF raise = 1 THEN Thrown(coll)
     ELSE IF raise = 2 THEN Thrown(r.coll)
     ELSE Returned(r.coll, FALSE, r.ret)

\* updateOne: the driver's updateOne with $set, then findOne of the _id;
\* catch (err) { throw err }
Try_updateOne(kind, coll, filter, update, raise) ==
  LET set == IF kind = "document" THEN Rest(Real_toMongoDocument(update), "_id") ELSE update
      after == Driver_updateOne(coll, Doc_idFilter(kind, filter["id"]), set)
      i == Driver_findOne(after, Doc_idFilter(kind, filter["id"]))
  IN IF raise = 1 THEN Thrown(coll)
     ELSE IF raise = 2 THEN Thrown(after)
     ELSE Returned(after, FALSE, IF i # 0 THEN Real_toAppDocument(after[i]) ELSE Null)

\* deleteOne: findOne of the _id, return null when none, then the driver's
\* deleteOne; catch (err) { throw err }
Try_deleteOne(kind, coll, filter, raise) ==
  LET docToDelete == Race_findOne(kind, coll, filter["id"])
      result == Driver_deleteOne(coll, Doc_idFilter(kind, filter["id"]))
  IN IF raise = 1 THEN Thrown(coll)
     ELSE IF docToDelete = Null THEN Returned(coll, FALSE, Null)
     ELSE IF raise = 2 THEN Thrown(coll)
     ELSE Returned(result.coll, FALSE, Race_return(docToDelete, result))

\* getOrderWithDetails of the external registry: findById of the order, then
\* find, findOne and findById of the parts together; catch (err) { return null }.
\* The four reads are driver calls 1 to 4.
Real_getOrderWithDetails(kind, ords, rows, pays, custs, orderId, raise) ==
  LET order == Try_findById(kind, ords, orderId, IF raise = 1 THEN 1 ELSE 0)
  IN IF order.ret = Null THEN Returned(ords, order.raised, Null)
     ELSE LET items == Try_find(kind, rows, [order_id |-> orderId], IF raise = 2 THEN 1 ELSE 0)
              payment == Try_findOne(kind, pays, [order_id |-> orderId], IF raise = 3 THEN 1 ELSE 0)
              customer == Try_findById(kind, custs,
                                       IF "customer_id" \in DOMAIN order.ret
                                       THEN order.ret["customer_id"] ELSE "",
                                       IF raise = 4 THEN 1 ELSE 0)
          IN Returned(ords, raise # 0,
                      OrderDetails(order.ret, items.ret, payment.ret, customer.ret))

\* Documents written to the collections of the registry, ids looked up,
\* queries and patches.
FailDocs == {[name |-> "a"], [customer_id |-> "h1"]}
FailParts == {"orderItems", "payments", "customers"}
FailPartDoc == [orderItems |-> [order_id |-> "h1"], payments |-> [order_id |-> "h1"],
                customers |-> [name |-> "c"]]
FailIds == {"h1", "x"}
FailQueries == {EmptyRec, [name |-> "a"], [id |-> "h1"]}
FailPatches == {[name |-> "b"]}

\* ObjectIds the driver has not handed out in a collection.
FreshHexOf(coll) == HexIds \ {IdToString(coll[i]["_id"]) : i \in 1..Len(coll)}

FailCalled(op, arg, upd, raise, r) ==
  [op |-> op, arg |-> arg, upd |-> upd, raise |-> raise, raised |-> r.raised,
   failed |-> r.failed, ret |-> r.ret]

failUnchanged == <<backend, crudVars, connVars, pageVars, asyncVars>>

InitFail ==
  /\ backend \in DocBackends
  /\ collection = <<>>
  /\ storage = <<>>
  /\ slot = <<>>
  /\ mongo = <<>>
  /\ table = <<>>
  /\ orders = <<>>
  /\ orderItems = <<>>
  /\ DetailIdle
  /\ ConnIdle
  /\ PageIdle
  /\ AsyncIdle
  /\ last = NoCall

\* The collection of a part of an order.
FailPart(name) ==
  IF name = "orderItems" THEN orderItems ELSE IF name = "payments" THEN payments ELSE customers

\* A document is inserted into one of the part collections.
fail_insertPart(name) ==
  /\ last.op = "none"
  /\ Len(FailPart(name)) < (IF name = "orderItems" THEN MaxDetail ELSE 1)
  /\ LET r == Try_insertOne(backend, FailPart(name), FailPartDoc[name],
                            CHOOSE hex \in FreshHexOf(FailPart(name)) : TRUE, 0)
     IN /\ orderItems' = IF name = "orderItems" THEN r.coll ELSE orderItems
        /\ payments' = IF name = "payments" THEN r.coll ELSE payments
        /\ customers' = IF name = "customers" THEN r.coll ELSE customers
  /\ UNCHANGED <<failUnchanged, docVars, orders, last>>

fail_insertOne(document, raise) ==
  /\ last.op = "none"
  /\ Len(mongo) < MaxLen
  /\ \E hex \in FreshHexOf(mongo) :
       LET r == Try_insertOne(backend, mongo, document, hex, raise)
       IN /\ mongo' = r.coll
          /\ last' = FailCalled("insertOne", document, EmptyRec, raise, r)
  /\ UNCHANGED <<failUnchanged, table, orderVars, detailVars>>

fail_updateOne(id, update, raise) ==
  /\ last.op = "none"
  /\ LET r == Try_updateOne(backend, mongo, [id |-> id], update, raise)
     IN /\ mongo' = r.coll
        /\ last' = FailCalled("updateOne", [id |-> id], update, raise, r)
  /\ UNCHANGED <<failUnchanged, table, orderVars, detailVars>>

fail_deleteOne(id, raise) ==
  /\ last.op = "none"
  /\ LET r == Try_deleteOne(backend, mongo, [id |-> id], raise)
     IN /\ mongo' = r.coll
        /\ last' = FailCalled("deleteOne", [id |-> id], EmptyRec, raise, r)
  /\ UNCHANGED <<failUnchanged, table, orderVars, detailVars>>

fail_find(query, raise) ==
  /\ last.op = "none"
  /\ last' = FailCalled("find", query, EmptyRec, raise, Try_find(backend, mongo, query, raise))
  /\ UNCHANGED <<failUnchanged, docVars, orderVars, detailVars>>

fail_count(query, raise) ==
  /\ last.op = "none"
  /\ last' = FailCalled("count", query, EmptyRec, raise, Try_count(backend, mongo, query, raise))
  /\ UNCHANGED <<failUnchanged, docVars, orderVars, detailVars>>

fail_findOne(query, raise) ==
  /\ last.op = "none"
  /\ last' = FailCalled("findOne", query, EmptyRec, raise, Try_findOne(backend, mongo, query, raise))
  /\ UNCHANGED <<failUnchanged, docVars, orderVars, detailVars>>

fail_findById(id, raise) ==
  /\ last.op = "none"
  /\ last' = FailCalled("findById", [id |-> id], EmptyRec, raise,
                        Try_findById(backend, mongo, id, raise))
  /\ UNCHANGED <<failUnchanged, docVars, orderVars, detailVars>>

\* The collection of the operations above is the orders collection here.
fail_getOrderWithDetails(orderId, raise) ==
  /\ last.op = "none"
  /\ last' = FailCalled("getOrderWithDetails", [id |-> orderId], EmptyRec, raise,
                        Real_getOrderWithDetails(backend, mongo, orderItems, payments,
                                                 customers, orderId, raise))
  /\ UNCHANGED <<failUnchanged, docVars, orderVars, detailVars>>

NextFail ==
  \/ \E name \in FailParts : fail_insertPart(name)
  \/ \E document \in FailDocs, raise \in 0..2 : fail_insertOne(document, raise)
  \/ \E id \in FailIds, update \in FailPatches, raise \in 0..2 : fail_updateOne(id, update, raise)
  \/ \E id \in FailIds, raise \in 0..2 : fail_deleteOne(id, raise)
  \/ \E query \in FailQueries, raise \in 0..1 : fail_find(query, raise)
  \/ \E query \in FailQueries, raise \in 0..1 : fail_count(query, raise)
  \/ \E query \in FailQueries, raise \in 0..1 : fail_findOne(query, raise)
  \/ \E id \in FailIds, raise \in 0..1 : fail_findById(id, raise)
  \/ \E id \in FailIds, raise \in 0..4 : fail_getOrderWithDetails(id, raise)
  \/ release

SpecFail == InitFail /\ [][NextFail]_vars

\* ------------------------------------------- local-persisted adapter, slot
\* Documents, ids and patches of the calls on the persisted collection.
SlotDocs == {[name |-> "a"], [name |-> "a", id |-> "x"], [name |-> "b", stock |-> "1"]}
SlotIds == {"x", "g1"}
SlotPatches == {[name |-> "b"], [stock |-> "1", id |-> "g2"]}
SlotQueries == {EmptyRec, [name |-> "a"], [id |-> "x"]}

\* The log of a call: wrote tells whether the call reached
\* saveToLocalStorage, ok whether setItem succeeded there, failed whether
\* the call rejected.
SlotCalled(op, arg, upd, wrote, ok, ret) ==
  [op |-> op, arg |-> arg, upd |-> upd, wrote |-> wrote, ok |-> ok, failed |-> FALSE,
   ret |-> ret, pre |-> storage, preSlot |-> slot]

slotUnchanged == <<backend, collection, docVars, orderVars, sideVars>>

InitSlot ==
  /\ backend = "local"
  /\ collection = <<>>
  /\ storage = <<>>
  /\ slot = <<>>
  /\ mongo = <<>>
  /\ table = <<>>
  /\ orders = <<>>
  /\ orderItems = <<>>
  /\ SideIdle
  /\ last = NoCall

\* The outcome r of a mutating call is installed; the call reaches
\* saveToLocalStorage unless it returned early.
SlotCommit(op, arg, upd, r, wrote, ok) ==
  /\ storage' = r.coll
  /\ slot' = IF wrote THEN Browser_saveToLocalStorage(r.coll, slot, ok) ELSE slot
  /\ last' = SlotCalled(op, arg, upd, wrote, wrote /\ ok, r.ret)
  /\ UNCHANGED slotUnchanged

slot_insertOne(document, ok) ==
  /\ last.op = "none"
  /\ Len(storage) < MaxLen
  /\ \E token \in GenIds \ IdsOf(View("local", storage)) :
       SlotCommit("insertOne", document, EmptyRec,
                  Browser_insertOne(storage, document, token), TRUE, ok)

slot_updateOne(id, update, ok) ==
  /\ last.op = "none"
  /\ LET r == Browser_updateOne(storage, [id |-> id], update)
     IN SlotCommit("updateOne", [id |-> id], update, r, r.ret # Null, ok)

slot_deleteOne(id, ok) ==
  /\ last.op = "none"
  /\ LET r == Browser_deleteOne(storage, [id |-> id])
     IN SlotCommit("deleteOne", [id |-> id], EmptyRec, r, r.ret # Null, ok)

slot_find(query) ==
  /\ last.op = "none"
  /\ last' = SlotCalled("find", query, EmptyRec, FALSE, FALSE, Browser_find(storage, query).rets)
  /\ UNCHANGED <<slotUnchanged, storage, slot>>

slot_findById(id) ==
  /\ last.op = "none"
  /\ last' = SlotCalled("findById", [id |-> id], EmptyRec, FALSE, FALSE,
                        Browser_findById(storage, id).ret)
  /\ UNCHANGED <<slotUnchanged, storage, slot>>

slot_count(query) ==
  /\ last.op = "none"
  /\ last' = SlotCalled("count", query, EmptyRec, FALSE, FALSE, Browser_count(storage, query))
  /\ UNCHANGED <<slotUnchanged, storage, slot>>

\* The page is loaded again: a new adapter is constructed on the slot.
slot_constructor(parses) ==
  /\ last.op = "none"
  /\ storage' = Browser_loadFromLocalStorage(slot, parses)
  /\ last' = SlotCalled("constructor", EmptyRec, EmptyRec, FALSE, FALSE, Null)
  /\ UNCHANGED <<slotUnchanged, slot>>

NextSlot ==
  \/ \E document \in SlotDocs, ok \in BOOLEAN : slot_insertOne(document, ok)
  \/ \E id \in SlotIds, update \in SlotPatches, ok \in BOOLEAN : slot_updateOne(id, update, ok)
  \/ \E id \in SlotIds, ok \in BOOLEAN : slot_deleteOne(id, ok)
  \/ \E query \in SlotQueries : slot_find(query)
  \/ \E id \in SlotIds : slot_findById(id)
  \/ \E query \in SlotQueries : slot_count(query)
  \/ slot_constructor(TRUE)
  \/ release

SpecSlot == InitSlot /\ [][NextSlot]_vars

\* ------------------------------------------- the relational composite read
\* Rows the callers insert into the tables orders, order_items, payments and
\* customers; the columns left out are carried like the ones kept.
JoinOrders == {[customer_id |-> "c1"]}
JoinItems == {[order_id |-> o] : o \in DetailOrderIds}
JoinPayments == {[order_id |-> o, status |-> "completed"] : o \in DetailOrderIds}
JoinCustomers == {[name |-> "a"]}

\* The keys of json_build_object for the payment and for the customer.
PaymentKeys == {"id", "status"}
CustomerKeys == {"id", "name"}

\* PostgresTable.insertOne: INSERT ... RETURNING *; the id column is the
\* primary key, generated when the data carry none.
Pg_insertOne(rows, data, generated) ==
  LET row == IF "id" \in DOMAIN data THEN data ELSE Spread(data, [id |-> generated])
  IN [coll |-> Append(rows, row), ret |-> row]

\* json_build_object(k, t.k, ...) over a joined row t; the row of a LEFT
\* JOIN without match is all NULL, and the object is built all the same.
Pg_json_build_object(keys, t) ==
  [k \in keys |-> IF t # Null /\ k \in DOMAIN t THEN t[k] ELSE NullValue]

\* json_agg(oi.*) over the joined item rows of a group: the one all-NULL row
\* of a LEFT JOIN without match aggregates to [null].
Pg_json_agg(ts) == IF ts = <<>> THEN <<Null>> ELSE ts

\* The right-hand rows of a LEFT JOIN: the matching rows, or the one NULL row.
LeftJoin(ts) == IF ts = <<>> THEN {Null} ELSE {ts[i] : i \in 1..Len(ts)}

\* The rows of the query of getOrderWithDetails: one per group
\* (o.id, p.id, c.id) of the joined rows with o.id = $1.
Pg_orderRows(ords, rows, pays, custs, orderId) ==
  {OrderDetails(o,
                Pg_json_agg(SelectSeq(rows, LAMBDA oi : oi["order_id"] = o["id"])),
                Pg_json_build_object(PaymentKeys, p),
                Pg_json_build_object(CustomerKeys, c)) :
     o \in {ords[i] : i \in {j \in 1..Len(ords) : ords[j]["id"] = orderId}},
     p \in LeftJoin(SelectSeq(pays, LAMBDA t : t["order_id"] = orderId)),
     c \in LeftJoin(SelectSeq(custs,
                      LAMBDA t : \E i \in 1..Len(ords) :
                        ords[i]["id"] = orderId /\ ords[i]["customer_id"] = t["id"]))}

\* getOrderWithDetails of the relational registry: result[0] of the query,
\* which has no ORDER BY, or null when the query has no row.
Pg_getOrderWithDetails(ords, rows, pays, custs, orderId) ==
  LET result == Pg_orderRows(ords, rows, pays, custs, orderId)
  IN IF result = {} THEN {Null} ELSE result

\* The tables of the relational registry.
joinUnchanged == <<backend, crudVars, docVars, connVars, pageVars, asyncVars>>

InitJoin ==
  /\ backend = "relational"
  /\ collection = <<>>
  /\ storage = <<>>
  /\ slot = <<>>
  /\ mongo = <<>>
  /\ table = <<>>
  /\ orders = <<>>
  /\ orderItems = <<>>
  /\ payments = <<>>
  /\ customers = <<>>
  /\ ConnIdle
  /\ PageIdle
  /\ AsyncIdle
  /\ last = NoCall

\* postgresDB.orders.insertOne(data)
join_insertOrder(data) ==
  /\ last.op = "none"
  /\ \E id \in DetailOrderIds \ IdsOf(orders) : orders' = Pg_insertOne(orders, data, id).coll
  /\ UNCHANGED <<joinUnchanged, orderItems, detailVars, last>>

\* postgresDB.orderItems.insertOne(data)
join_insertItem(data) ==
  /\ last.op = "none"
  /\ \E id \in DetailItemIds \ IdsOf(orderItems) :
       orderItems' = Pg_insertOne(orderItems, data, id).coll
  /\ UNCHANGED <<joinUnchanged, orders, detailVars, last>>

\* postgresDB.payments.insertOne(data)
join_insertPayment(data) ==
  /\ last.op = "none"
  /\ \E id \in DetailPaymentIds \ IdsOf(payments) :
       payments' = Pg_insertOne(payments, data, id).coll
  /\ UNCHANGED <<joinUnchanged, orderVars, customers, last>>

\* postgresDB.customers.insertOne(data)
join_insertCustomer(data) ==
  /\ last.op = "none"
  /\ \E id \in DetailCustomerIds \ IdsOf(customers) :
       customers' = Pg_insertOne(customers, data, id).coll
  /\ UNCHANGED <<joinUnchanged, orderVars, payments, last>>

\* getOrderWithDetails(orderId) of the relational registry; the log also
\* holds what the in-memory registry returns for the same stored data.
join_getOrderWithDetails(orderId) ==
  /\ last.op = "none"
  /\ \E ret \in Pg_getOrderWithDetails(orders, orderItems, payments, customers, orderId) :
       last' = [op |-> "getOrderWithDetails", arg |-> [id |-> orderId], ret |-> ret,
                memory |-> Mock_getOrderWithDetails(orders, orderItems, payments,
                                                    customers, orderId)]
  /\ UNCHANGED <<joinUnchanged, orderVars, detailVars>>

NextJoin ==
  \/ \E data \in JoinOrders : join_insertOrder(data)
  \/ \E data \in JoinItems : join_insertItem(data)
  \/ \E data \in JoinPayments : join_insertPayment(data)
  \/ \E data \in JoinCustomers : join_insertCustomer(data)
  \/ \E orderId \in DetailOrderIds : join_getOrderWithDetails(orderId)
  \/ release

SpecJoin == InitJoin /\ [][NextJoin]_vars

\* ------------------------------------------- the expense form
\* Largest number of page sessions open at once.
MaxForms == 2

\* Tokens of generateId() behind wh_ and exp_, ids the browser store
\* generates, names of warehouses, and the values typed into the form.
WarehouseTokens == {"wh_1", "wh_2"}
ExpenseTokens == {"exp_1"}
BrowserTokens == {"t1"}
WarehouseNames == {"a", "b"}
ExpenseTitles == {"rent"}

\* createWarehouse / updateWarehouse / deleteWarehouse of the in-memory
\* store: the array is changed in place.
Data_createWarehouse(ws, warehouse, token) ==
  Append(ws, Spread(warehouse, [id |-> token, created_at |-> Now]))

Data_updateWarehouse(ws, id, updates) ==
  LET index == FindIndex(KeyIs(ws, "id", id))
  IN IF index # 0 THEN [ws EXCEPT ![index] = Spread(@, updates)] ELSE ws

Data_deleteWarehouse(ws, id) ==
  LET index == FindIndex(KeyIs(ws, "id", id))
  IN IF index # 0 THEN Splice(ws, index) ELSE ws

\* The warehouses state of a form session: [] until the promise of
\* getWarehouses resolves, then what setWarehouses(data) was given, which is
\* the array of the store itself (simulateApiCall(warehouses) resolves with
\* its argument), so the session reads what the array holds now.
Form_warehouses(f) == IF f.pc = "loading" THEN <<>> ELSE warehouses

\* createExpense / updateExpense of the in-memory store.
Data_createExpense(es, expense, token) == Append(es, Spread(expense, [id |-> token]))

Data_updateExpense(es, id, updates) ==
  LET index == FindIndex(KeyIs(es, "id", id))
  IN IF index # 0 THEN [coll |-> [es EXCEPT ![index] = Spread(@, updates)], failed |-> FALSE]
     ELSE [coll |-> es, failed |-> TRUE]

\* Mutant of onSubmit: the name is taken from the last warehouse of the list.
Mut_Form_expenseData(f, values) ==
  LET ws == Form_warehouses(f)
      index == FindIndex(KeyIs(ws, "id", values["warehouse_id"]))
  IN IF index = 0 THEN Null
     ELSE Spread(values, [warehouse_name |-> ws[Len(ws)]["name"]])

\* onSubmit of the expense form up to its write: the warehouse is looked up
\* in the session's list; without it nothing is written.
Form_expenseData(f, values) ==
  LET ws == Form_warehouses(f)
      index == FindIndex(KeyIs(ws, "id", values["warehouse_id"]))
  IN IF index = 0 THEN Null
     ELSE Spread(values, [warehouse_name |-> ws[index]["name"]])

\* A session of the expense form; stale tells that a warehouse was renamed
\* or deleted after the session had loaded its list.
ExpenseSession(edit) == [page |-> "expense", edit |-> edit, pc |-> "loading", stale |-> FALSE]

\* The sessions after a warehouse was renamed or deleted.
Outdated(fs) ==
  [i \in 1..Len(fs) |-> IF fs[i].pc = "ready" THEN [fs[i] EXCEPT !.stale = TRUE] ELSE fs[i]]

ExpenseCalled(op, values, wrote, ret, stale) ==
  [op |-> op, arg |-> values, wrote |-> wrote, ret |-> ret, stale |-> stale]

expenseUnchanged == <<backend, collection, docVars, orderVars, detailVars, connVars, asyncVars, hook>>

InitExpense ==
  /\ backend = "memory"
  /\ collection = <<>>
  /\ storage = <<>>
  /\ slot = <<>>
  /\ mongo = <<>>
  /\ table = <<>>
  /\ orders = <<>>
  /\ orderItems = <<>>
  /\ DetailIdle
  /\ ConnIdle
  /\ AsyncIdle
  /\ warehouses = <<[id |-> "wh_1", name |-> "a", created_at |-> Now]>>
  /\ expenses = <<>>
  /\ forms = <<>>
  /\ hook = <<>>
  /\ last = NoCall

\* mockData.createWarehouse({name})
createWarehouse(name) ==
  /\ last.op = "none"
  /\ \E token \in WarehouseTokens \ IdsOf(warehouses) :
       warehouses' = Data_createWarehouse(warehouses, [name |-> name], token)
  /\ UNCHANGED <<expenseUnchanged, storage, slot, expenses, forms, last>>

\* mockData.updateWarehouse(id, {name})
updateWarehouse(id, name) ==
  /\ last.op = "none"
  /\ warehouses' = Data_updateWarehouse(warehouses, id, [name |-> name])
  /\ warehouses' # warehouses
  /\ forms' = Outdated(forms)
  /\ UNCHANGED <<expenseUnchanged, storage, slot, expenses, last>>

\* mockData.deleteWarehouse(id)
deleteWarehouse(id) ==
  /\ last.op = "none"
  /\ warehouses' = Data_deleteWarehouse(warehouses, id)
  /\ warehouses' # warehouses
  /\ forms' = Outdated(forms)
  /\ UNCHANGED <<expenseUnchanged, storage, slot, expenses, last>>

\* WarehouseForm.onSubmit: create and update go through
\* useRealMongoCollection('warehouses'), the browser store of realMongoDB.
warehouseForm_onSubmit(id, name) ==
  /\ last.op = "none"
  /\ IF id = ""
     THEN /\ \E token \in BrowserTokens \ IdsOf(View("local", storage)) :
               storage' = Browser_insertOne(storage, [name |-> name, created_at |-> Now], token).coll
     ELSE /\ storage' = Browser_updateOne(storage, [id |-> id], [name |-> name]).coll
          /\ storage' # storage
  /\ slot' = Browser_saveToLocalStorage(storage', slot, TRUE)
  /\ UNCHANGED <<expenseUnchanged, warehouses, expenses, forms, last>>

\* The expense form is opened, to create an expense or to edit one;
\* getWarehouses is called.
expenseForm_open(edit) ==
  /\ last.op = "none"
  /\ Len(forms) < MaxForms
  /\ forms' = Append(forms, ExpenseSession(edit))
  /\ UNCHANGED <<expenseUnchanged, storage, slot, warehouses, expenses, last>>

\* The promise of getWarehouses resolves: setWarehouses(data).
expenseForm_fetchWarehouses(i) ==
  /\ last.op = "none"
  /\ i \in 1..Len(forms)
  /\ forms[i].pc = "loading"
  /\ forms' = [forms EXCEPT ![i] = [@ EXCEPT !.pc = "ready"]]
  /\ UNCHANGED <<expenseUnchanged, storage, slot, warehouses, expenses, last>>

\* onSubmit of session i with the chosen warehouse; after a write the page
\* navigates away.
expenseForm_onSubmit(i, title, warehouseId) ==
  /\ last.op = "none"
  /\ i \in 1..Len(forms)
  /\ LET f == forms[i]
         values == [title |-> title, warehouse_id |-> warehouseId]
         expenseData == Form_expenseData(f, values)
         seen == f.stale
     IN IF expenseData = Null
        THEN /\ last' = ExpenseCalled("onSubmit", values, FALSE, Null, seen)
             /\ UNCHANGED <<expenses, forms>>
        ELSE IF f.edit # ""
        THEN LET r == Data_updateExpense(expenses, f.edit, expenseData)
             IN /\ expenses' = r.coll
                /\ last' = ExpenseCalled("onSubmit", values, ~r.failed,
                                         IF r.failed THEN Null ELSE expenseData, seen)
                /\ forms' = IF r.failed THEN forms ELSE Splice(forms, i)
        ELSE /\ \E token \in ExpenseTokens \ IdsOf(expenses) :
                  expenses' = Data_createExpense(expenses, expenseData, token)
             /\ last' = ExpenseCalled("onSubmit", values, TRUE, expenseData, seen)
             /\ forms' = Splice(forms, i)
  /\ UNCHANGED <<expenseUnchanged, storage, slot, warehouses>>

NextExpense ==
  \/ \E name \in WarehouseNames : createWarehouse(name)
  \/ \E id \in WarehouseTokens, name \in WarehouseNames : updateWarehouse(id, name)
  \/ \E id \in WarehouseTokens : deleteWarehouse(id)
  \/ \E id \in {""} \cup BrowserTokens, name \in WarehouseNames : warehouseForm_onSubmit(id, name)
  \/ \E edit \in {""} \cup ExpenseTokens : expenseForm_open(edit)
  \/ \E i \in 1..MaxForms : expenseForm_fetchWarehouses(i)
  \/ \E i \in 1..MaxForms, title \in ExpenseTitles, id \in WarehouseTokens :
       expenseForm_onSubmit(i, title, id)
  \/ release

SpecExpense == InitExpense /\ [][NextExpense]_vars

\* ------------------------------------------------ the database handle
\* The getter db of MongoDBConnection: raises unless _db is set.
Conn_db(c) ==
  IF c.db = NullValue THEN [failed |-> TRUE, ret |-> NullValue]
  ELSE [failed |-> FALSE, ret |-> c.db]

\* The collections asked for.
CollectionNames == {"orders", "warehouses"}

\* getCollection of MongoDBConnection: raises unless _db is set; the browser
\* returns a reference by name, Node the collection of the driver's db.
Conn_getCollection(kind, c, name) ==
  IF c.db = NullValue THEN [failed |-> TRUE, ret |-> NullValue]
  ELSE [failed |-> FALSE,
        ret |-> IF kind = "mongoBrowser" THEN [collectionName |-> name]
                ELSE [db |-> c.db, collection |-> name]]

\* ------------------------------------------------ checkout payment form
\* The orders of the in-memory store a checkout is opened for, an id no order
\* carries, and the tokens createPayment draws.
CheckoutOrders == <<[id |-> "ord_1", total_amount |-> 1], [id |-> "ord_2", total_amount |-> 2]>>
CheckoutOrderIds == {"ord_1", "ord_2", "ord_9"}
PaymentTokens == {"pay_1", "pay_2", "pay_3"}
PaymentMethods == {"credit_card", "cash"}

\* mockData.findItemById(items, id): the first record with the id.
Data_findItemById(items, id) ==
  LET i == FindIndex([j \in 1..Len(items) |-> items[j]["id"] = id])
  IN IF i = 0 THEN Null ELSE items[i]

\* mockData.getOrderPayment(orderId): payments.find(p => p.order_id === orderId),
\* evaluated when the call is made.
Data_getOrderPayment(pays, orderId) ==
  LET i == FindIndex([j \in 1..Len(pays) |-> pays[j]["order_id"] = orderId])
  IN IF i = 0 THEN Null ELSE pays[i]

\* mockData.createPayment(payment): the payments with the new one pushed.
Data_createPayment(pays, payment, token) ==
  Append(pays, Spread(payment, [id |-> token]))

\* paymentData of handlePaymentSubmit; card_details only for a credit card.
Form_paymentData(f, method) ==
  Spread([order_id |-> f.orderId, amount |-> f.orderAmount, payment_date |-> Now,
          method |-> method, transaction_id |-> "txn", status |-> "completed"],
         IF method = "credit_card"
         THEN [card_details |-> [last4 |-> "4242", expiry |-> "12/30", brand |-> "Visa"]]
         ELSE EmptyRec)

\* Mutant of the guard of handlePaymentSubmit: the store is asked again.
Mut_Form_alreadyPaid(f, pays) == Data_getOrderPayment(pays, f.orderId) # Null

\* The guard of handlePaymentSubmit: the flag the session set when it loaded.
Form_alreadyPaid(f, pays) == f.alreadyPaid

\* A session of the checkout form for an order: getOrder has been called and
\* holds what findItemById returned.
CheckoutSession(orderId, found) ==
  [page |-> "checkout", orderId |-> orderId, pc |-> "getOrder", found |-> found,
   orderAmount |-> 0, alreadyPaid |-> FALSE]

CheckoutCalled(op, orderId, method, wrote, ret) ==
  [op |-> op, arg |-> orderId, upd |-> method, wrote |-> wrote, ret |-> ret,
   pre |-> payments]

checkoutUnchanged ==
  <<backend, crudVars, docVars, orders, orderItems, customers, connVars, asyncVars,
    warehouses, expenses, hook>>

InitCheckout ==
  /\ backend = "memory"
  /\ collection = <<>>
  /\ storage = <<>>
  /\ slot = <<>>
  /\ mongo = <<>>
  /\ table = <<>>
  /\ orders = CheckoutOrders
  /\ orderItems = <<>>
  /\ DetailIdle
  /\ ConnIdle
  /\ AsyncIdle
  /\ PageIdle
  /\ last = NoCall

\* The checkout page is opened for an order: fetchOrderData calls getOrder.
paymentForm_open(orderId) ==
  /\ last.op = "none"
  /\ Len(forms) < MaxForms
  /\ forms' = Append(forms, CheckoutSession(orderId, Data_findItemById(orders, orderId)))
  /\ UNCHANGED <<checkoutUnchanged, payments, last>>

\* The promise of getOrder resolves: without an order the page navigates
\* away; with one, getOrderPayment is called and looks into the payments.
paymentForm_getOrder(i) ==
  /\ last.op = "none"
  /\ i \in 1..Len(forms)
  /\ forms[i].pc = "getOrder"
  /\ forms' = IF forms[i].found = Null THEN Splice(forms, i)
              ELSE [forms EXCEPT ![i] =
                      [@ EXCEPT !.pc = "getOrderPayment",
                                !.orderAmount = forms[i].found["total_amount"],
                                !.found = Data_getOrderPayment(payments, forms[i].orderId)]]
  /\ UNCHANGED <<checkoutUnchanged, payments, last>>

\* The promise of getOrderPayment resolves: setAlreadyPaid(true) when a
\* payment was found; the form is shown.
paymentForm_getOrderPayment(i) ==
  /\ last.op = "none"
  /\ i \in 1..Len(forms)
  /\ forms[i].pc = "getOrderPayment"
  /\ forms' = [forms EXCEPT ![i] =
                 [@ EXCEPT !.pc = "ready", !.alreadyPaid = (forms[i].found # Null),
                           !.found = Null]]
  /\ UNCHANGED <<checkoutUnchanged, payments, last>>

\* handlePaymentSubmit of session i; filled tells whether the credit card
\* fields are filled in. After createPayment the page navigates away.
paymentForm_handlePaymentSubmit(i, method, filled) ==
  /\ last.op = "none"
  /\ i \in 1..Len(forms)
  /\ forms[i].pc = "ready"
  /\ LET f == forms[i]
     IN IF Form_alreadyPaid(f, payments) \/ (method = "credit_card" /\ ~filled)
        THEN /\ last' = CheckoutCalled("handlePaymentSubmit", f.orderId, method, FALSE, Null)
             /\ UNCHANGED <<payments, forms>>
        ELSE \E token \in PaymentTokens \ IdsOf(payments) :
               /\ payments' = Data_createPayment(payments, Form_paymentData(f, method), token)
               /\ last' = CheckoutCalled("handlePaymentSubmit", f.orderId, method, TRUE,
                                         Spread(Form_paymentData(f, method), [id |-> token]))
               /\ forms' = Splice(forms, i)
  /\ UNCHANGED checkoutUnchanged

NextCheckout ==
  \/ \E orderId \in CheckoutOrderIds : paymentForm_open(orderId)
  \/ \E i \in 1..MaxForms : paymentForm_getOrder(i)
  \/ \E i \in 1..MaxForms : paymentForm_getOrderPayment(i)
  \/ \E i \in 1..MaxForms, method \in PaymentMethods, filled \in BOOLEAN :
       paymentForm_handlePaymentSubmit(i, method, filled)
  \/ release

SpecCheckout == InitCheckout /\ [][NextCheckout]_vars

\* ------------------------------------------------ access hooks
\* The hooks and the operations each of them offers.
Hooks == {"useMongoCollection", "usePostgresCollection", "useRealMongoCollection"}
HookOps == {"findAll", "findById", "findOne", "find", "create", "update", "remove", "count"}

\* A hook instance as useState leaves it; flight holds the operations that
\* were started and have not completed, failure the cause of the last
\* failing completion since an operation was last started.
NewHook(kind) ==
  [kind |-> kind, isLoading |-> FALSE, error |-> NullValue, flight |-> <<>>,
   failure |-> NullValue]

\* An operation up to its await: setIsLoading(true); setError(null).
Hook_start(h, op) ==
  [h EXCEPT !.isLoading = TRUE, !.error = NullValue, !.flight = Append(@, op),
            !.failure = NullValue]

\* Mutant of the finally block: isLoading follows the operations in flight.
Mut_Hook_settle(h, i, outcome) ==
  [h EXCEPT !.isLoading = Len(h.flight) > 1,
            !.error = IF outcome = "ok" THEN @ ELSE outcome,
            !.flight = Splice(@, i),
            !.failure = IF outcome = "ok" THEN @ ELSE outcome]

\* An operation after its await: setError(err) in the catch block when the
\* backend raised, setIsLoading(false) in the finally block.
Hook_settle(h, i, outcome) ==
  [h EXCEPT !.isLoading = FALSE,
            !.error = IF outcome = "ok" THEN @ ELSE outcome,
            !.flight = Splice(@, i),
            !.failure = IF outcome = "ok" THEN @ ELSE outcome]

HookStep(op, resumed, outcome) ==
  [op |-> op, resumed |-> resumed, outcome |-> outcome, pre |-> hook]

hookUnchanged ==
  <<backend, crudVars, docVars, orderVars, detailVars, connVars, asyncVars,
    warehouses, expenses, forms>>

InitHook ==
  /\ backend = "memory"
  /\ collection = <<>>
  /\ storage = <<>>
  /\ slot = <<>>
  /\ mongo = <<>>
  /\ table = <<>>
  /\ orders = <<>>
  /\ orderItems = <<>>
  /\ DetailIdle
  /\ ConnIdle
  /\ AsyncIdle
  /\ warehouses = <<>>
  /\ expenses = <<>>
  /\ forms = <<>>
  /\ hook \in {NewHook(kind) : kind \in Hooks}
  /\ last = NoCall

\* An operation of the hook is called.
hook_call(op) ==
  /\ Len(hook.flight) < MaxConc
  /\ hook' = Hook_start(hook, op)
  /\ last' = HookStep(op, FALSE, "ok")
  /\ UNCHANGED hookUnchanged

\* The backend call of the i-th operation in flight settles.
hook_settle(i, outcome) ==
  /\ i \in 1..Len(hook.flight)
  /\ hook' = Hook_settle(hook, i, outcome)
  /\ last' = HookStep(hook.flight[i], TRUE, outcome)
  /\ UNCHANGED hookUnchanged

NextHook ==
  \/ \E op \in HookOps : hook_call(op)
  \/ \E i \in 1..MaxConc, outcome \in Outcomes : hook_settle(i, outcome)

SpecHook == InitHook /\ [][NextHook]_vars

\* ------------------------------------------- the composite read, interleaved
\* mockMongoDB.getOrderWithDetails reads the four collections one after
\* another, each read after a timer; mockData.createOrder and deleteOrder
\* change the same arrays in one run each.
\* Largest number of item rows an order is created with while a composite
\* read is in flight; the store holds one row more at most.
MaxSnap == 1

SnapItemLists == {[k \in 1..n |-> NewItem] : n \in 0..MaxSnap}
SnapItemTokens == {"item_" \o ToString(n) : n \in 1..(MaxSnap + 1)}

\* The tokens generateId hands to n new item rows: distinct, and carried by
\* no row; which ones they are does not show in what the read returns.
SnapItemIds(n) ==
  {CHOOSE t \in [1..n -> SnapItemTokens \ IdsOf(orderItems)] :
     \A a, b \in 1..n : t[a] = t[b] => a = b}

\* The item rows of an order, as orderItems.find({order_id}) returns them.
ItemsOfOrder(rows, orderId) == Mock_find(rows, [order_id |-> orderId]).rets

\* A call of getOrderWithDetails in flight: the read it waits for, what it
\* has read, and moments, the item rows its order had at each moment of the
\* call at which the order existed.
SnapCall(orderId) ==
  [orderId |-> orderId, pc |-> "order", order |-> Null, items |-> <<>>, payment |-> Null,
   moments |-> IF Mock_findById(orders, orderId).ret = Null THEN {}
               ELSE {ItemsOfOrder(orderItems, orderId)}]

\* The calls in flight after the arrays have become ords and rows.
Noted(cs, ords, rows) ==
  [i \in 1..Len(cs) |->
     IF Mock_findById(ords, cs[i].orderId).ret = Null THEN cs[i]
     ELSE [cs[i] EXCEPT !.moments = @ \cup {ItemsOfOrder(rows, cs[i].orderId)}]]

\* Mutant of the reads of getOrderWithDetails: the items are those found when
\* the order was read.
Mut_Snap_read(c, ords, rows, pays, custs) ==
  CASE c.pc = "order" ->
         [c EXCEPT !.pc = "items", !.order = Mock_findById(ords, c.orderId).ret,
                   !.items = ItemsOfOrder(rows, c.orderId)]
    [] c.pc = "items" -> [c EXCEPT !.pc = "payment"]
    [] c.pc = "payment" ->
         [c EXCEPT !.pc = "customer",
                   !.payment = Mock_findOne(pays, [order_id |-> c.orderId]).ret]
    [] OTHER -> c

\* The read the call waits for, done on the arrays as they are now.
Snap_read(c, ords, rows, pays, custs) ==
  CASE c.pc = "order" ->
         [c EXCEPT !.pc = "items", !.order = Mock_findById(ords, c.orderId).ret]
    [] c.pc = "items" ->
         [c EXCEPT !.pc = "payment", !.items = ItemsOfOrder(rows, c.orderId)]
    [] c.pc = "payment" ->
         [c EXCEPT !.pc = "customer",
                   !.payment = Mock_findOne(pays, [order_id |-> c.orderId]).ret]
    [] OTHER -> c

\* What the call returns after its last read.
Snap_return(c, custs) ==
  OrderDetails(c.order, c.items, c.payment,
               IF "customer_id" \in DOMAIN c.order
               THEN Mock_findById(custs, c.order["customer_id"]).ret ELSE Null)

SnapCalled(c, ret) ==
  [op |-> "getOrderWithDetails", arg |-> c.orderId, ret |-> ret, moments |-> c.moments]

\* A step that returns nothing to the caller of getOrderWithDetails.
SnapStep(op, arg) == [op |-> op, arg |-> arg, ret |-> Null, moments |-> {}]

snapUnchanged == <<backend, crudVars, docVars, detailVars, connVars, pageVars, finished, base>>

InitSnap ==
  /\ backend = "memory"
  /\ collection = <<>>
  /\ storage = <<>>
  /\ slot = <<>>
  /\ mongo = <<>>
  /\ table = <<>>
  /\ orders = <<>>
  /\ orderItems = <<>>
  /\ SideIdle
  /\ last = NoCall

\* mockData.createOrder(order, items)
snap_createOrder(items) ==
  /\ Len(orderItems) + Len(items) <= MaxSnap + 1
  /\ \E orderId \in DetailOrderIds \ IdsOf(orders), itemIds \in SnapItemIds(Len(items)) :
       LET r == Data_createOrder(orders, orderItems, NewOrder, items, orderId, itemIds)
       IN /\ orders' = r.orders
          /\ orderItems' = r.orderItems
          /\ calls' = Noted(calls, r.orders, r.orderItems)
          /\ last' = SnapStep("createOrder", orderId)
  /\ UNCHANGED snapUnchanged

\* mockData.deleteOrder(id)
snap_deleteOrder(id) ==
  /\ LET r == Data_deleteOrder(orders, orderItems, id)
     IN /\ ~r.failed
        /\ orders' = r.orders
        /\ orderItems' = r.orderItems
        /\ calls' = Noted(calls, r.orders, r.orderItems)
        /\ last' = SnapStep("deleteOrder", id)
  /\ UNCHANGED snapUnchanged

\* mockMongoDB.getOrderWithDetails(orderId) is called, one call at a time: it
\* waits for the timer of orders.findById.
snap_getOrderWithDetails(orderId) ==
  /\ calls = <<>>
  /\ calls' = Append(calls, SnapCall(orderId))
  /\ last' = SnapStep("call", orderId)
  /\ UNCHANGED <<snapUnchanged, orderVars>>

\* A timer of the i-th call fires: the read is done; without an order, and
\* after the last read, the call returns.
snap_read(i) ==
  /\ i \in 1..Len(calls)
  /\ LET c == Snap_read(calls[i], orders, orderItems, payments, customers)
     IN IF calls[i].pc = "order" /\ c.order = Null
        THEN /\ calls' = Splice(calls, i)
             /\ last' = SnapCalled(c, Null)
        ELSE IF calls[i].pc = "customer"
        THEN /\ calls' = Splice(calls, i)
             /\ last' = SnapCalled(c, Snap_return(c, customers))
        ELSE /\ calls' = [calls EXCEPT ![i] = c]
             /\ last' = SnapStep("read", c.orderId)
  /\ UNCHANGED <<snapUnchanged, orderVars>>

NextSnap ==
  \/ \E items \in SnapItemLists : snap_createOrder(items)
  \/ \E id \in DetailOrderIds : snap_deleteOrder(id)
  \/ \E orderId \in DetailOrderIds : snap_getOrderWithDetails(orderId)
  \/ \E i \in {1} : snap_read(i)

SpecSnap == InitSnap /\ [][NextSnap]_vars

\* ------------------------------------------------ collection contract
\* The records of a public view that equal the query on every key the query
\* has, in stored order.
Selected(v, query) ==
  SelectSeq(v, LAMBDA r : \A k \in DOMAIN query : k \in DOMAIN r /\ r[k] = query[k])

\* Index in a public view of the first record carrying the id, 0 when none.
FirstWithId(v, id) == FindIndex(KeyIs(v, "id", id))

PreView == View(backend, last.pre)

\* C1: every record r passed to insertOne is found again by findById under the
\* id of the returned record (no call in between), equal to r in every field,
\* plus the assigned id.
C1_InsertThenFindById ==
  last.op = "insertOne" =>
    LET found == Op_findById(Stored, last.ret["id"]).ret
    IN /\ found # Null
       /\ found = last.ret
       /\ DOMAIN found = (DOMAIN last.arg) \cup {"id"}
       /\ \A k \in (DOMAIN last.arg) \ {"id"} : found[k] = last.arg[k]

\* C2: no two stored records have the same id, and insertOne returns an id no
\* stored record had before the call.
C2_IdsUnique ==
  /\ \A i, j \in 1..Len(AppView) : AppView[i]["id"] = AppView[j]["id"] => i = j
  /\ last.op = "insertOne" => last.ret["id"] \notin IdsOf(PreView)

\* C3: updateOne never changes the id of the record it addresses: the
\* updated record keeps its id and is still found under it.
C3_UpdateKeepsId ==
  (last.op = "updateOne" /\ last.ret # Null) =>
    /\ last.ret["id"] = last.arg["id"]
    /\ Op_findById(Stored, last.arg["id"]).ret # Null

\* C4: a change a caller makes to a record it was handed does not change what
\* the collection stores.
C4_ReturnedRecordsAreCopies ==
  last.op = "mutated" => Stored = last.pre

\* C5: for an existing id and a patch p without id, updateOne sets exactly the
\* fields of p to p's values, leaves every other field of the addressed
\* record unchanged, and returns the record as stored after the call.
C5_UpdateFrame ==
  (last.op = "updateOne" /\ "id" \notin DOMAIN last.upd
     /\ FirstWithId(PreView, last.arg["id"]) # 0) =>
    LET i == FirstWithId(PreView, last.arg["id"])
        before == PreView[i]
        after == AppView[i]
    IN /\ Len(AppView) = Len(PreView)
       /\ DOMAIN after = (DOMAIN before) \cup (DOMAIN last.upd)
       /\ \A k \in DOMAIN last.upd : after[k] = last.upd[k]
       /\ \A k \in (DOMAIN before) \ (DOMAIN last.upd) : after[k] = before[k]
       /\ last.ret = after

\* Witness of C5: a patch without id that changes the name of a stored record
\* and leaves its stock alone.
C5_Witness ==
  /\ last.op = "updateOne"
  /\ DOMAIN last.upd = {"name"}
  /\ last.ret # Null
  /\ "stock" \in DOMAIN last.ret
  /\ LET i == FirstWithId(PreView, last.arg["id"])
     IN i # 0 /\ PreView[i]["name"] # last.upd["name"]

\* C6: when deleteOne({id}) returns a record, findById(id) then returns
\* absent and count({}) is one less than before the delete.
C6_DeleteRemoves ==
  (last.op = "deleteOne" /\ last.ret # Null) =>
    /\ Op_findById(Stored, last.arg["id"]).ret = Null
    /\ Op_count(Stored, EmptyRec) = Op_count(last.pre, EmptyRec) - 1

Any_findById(id) ==
  CASE backend = "document" -> Real_findById(mongo, id).ret
    [] backend = "documentNode" -> Node_findById(mongo, id).ret
    [] OTHER -> Op_findById(Stored, id).ret

Any_findOne(query) ==
  CASE backend = "document" -> Real_findOne(mongo, query).ret
    [] backend = "documentNode" -> Node_findOne(mongo, query).ret
    [] OTHER -> Op_findOne(Stored, query).ret

\* C8: for every id string, present or not, the empty string included,
\* findById(id) returns what findOne({id}) returns.
C8_FindByIdIsFindOne ==
  \A id \in Ids \cup LookupIds : Any_findById(id) = Any_findOne([id |-> id])

\* C10: after an order is deleted, no order item whose order_id is that
\* order's id remains: find({order_id}) on the order items is empty.
C10_DeleteOrderCascades ==
  (last.op \in {"deleteOrder", "orders.deleteOne"} /\ last.ret # Null) =>
    Mock_find(orderItems, [order_id |-> last.ret["id"]]).rets = <<>>

\* ------------------------------------------------ the composite read
\* C11: getOrderWithDetails(orderId) returns absent exactly when no order has
\* the id; otherwise it returns the fields of an order with that id, items =
\* the order items whose order_id is orderId and no others, payment = a
\* payment whose order_id is orderId (absent when there is none) and
\* customer = a customer whose id is the order's customer_id (absent when
\* there is none).
C11_OrderWithDetails ==
  last.op = "getOrderWithDetails" =>
    LET id == last.arg["id"]
        ords == View(backend, orders)
        pays == Selected(View(backend, payments), [order_id |-> id])
    IN /\ (last.ret = Null) <=> (id \notin IdsOf(ords))
       /\ last.ret # Null =>
            /\ \E i \in 1..Len(ords) :
                 /\ ords[i]["id"] = id
                 /\ \A k \in DOMAIN ords[i] : last.ret[k] = ords[i][k]
                 /\ DOMAIN last.ret = (DOMAIN ords[i]) \cup {"items", "payment", "customer"}
            /\ last.ret["items"] = Selected(View(backend, orderItems), [order_id |-> id])
            /\ IF pays = <<>> THEN last.ret["payment"] = Null
               ELSE \E i \in 1..Len(pays) : last.ret["payment"] = pays[i]
            /\ LET custs == Selected(View(backend, customers), [id |-> last.ret["customer_id"]])
               IN IF custs = <<>> THEN last.ret["customer"] = Null
                  ELSE \E i \in 1..Len(custs) : last.ret["customer"] = custs[i]

\* Witness of C11: the composite read of an order that has one of the two
\* stored items, one of the two stored payments and a stored customer.
C11_Witness ==
  /\ last.op = "getOrderWithDetails"
  /\ last.ret # Null
  /\ Len(orderItems) = 2
  /\ Len(last.ret["items"]) = 1
  /\ Len(payments) = 2
  /\ last.ret["payment"] # Null
  /\ last.ret["customer"] # Null

\* ------------------------------------------------ connection managers
\* C12: a connect(config) call that ran with no other call of the manager
\* interleaved returns true exactly when it ends with status = connected,
\* error = null and config = the supplied config, and false exactly when it
\* ends with status = error and error = the failure cause.
C12_ConnectResult ==
  (last.op = "connect" /\ last.done /\ last.alone) =>
    /\ last.ret = TRUE <=> /\ conn.status = "connected"
                           /\ conn.error = NullValue
                           /\ conn.config = last.arg
    /\ last.ret = FALSE <=> /\ conn.status = "error"
                            /\ last.outcome \in Causes
                            /\ conn.error = last.outcome

\* Witness of C12: a connect that was suspended in the backend, ran alone and
\* returned false, leaving its config and its failure cause in the manager.
C12_Witness ==
  /\ last.op = "connect"
  /\ last.resumed
  /\ last.alone
  /\ last.ret = FALSE
  /\ conn.error = "e2"
  /\ conn.config = "cfgB"

\* C13: the status changes only along the edges of the state machine: to
\* connecting when connect is called (and on from there within the call),
\* connecting to connected or error when connect resumes, connected to
\* disconnected by disconnect, any status to disconnected by reset.
C13_StatusEdges ==
  [][conn'.status # conn.status =>
       \/ last'.op = "connect" /\ ~last'.resumed
       \/ /\ last'.op = "connect" /\ last'.resumed
          /\ conn.status = "connecting"
          /\ conn'.status \in {"connected", "error"}
       \/ /\ last'.op \in {"disconnect", "close"}
          /\ conn.status = "connected"
          /\ conn'.status = "disconnected"
       \/ last'.op = "reset" /\ conn'.status = "disconnected"]_vars

\* The released backend resource of the manager.
Released == conn.pool = NullValue /\ conn.client = NullValue /\ conn.db = NullValue

\* C14: disconnect() called while the status is not connected returns true
\* and changes no field of the manager; called while connected, with a close
\* that succeeds, it ends with status = disconnected and the backend
\* resource released.
C14_DisconnectFrame ==
  /\ (last.op = "disconnect" /\ ~last.resumed /\ last.pre.status # "connected") =>
       last.done /\ last.ret = TRUE /\ conn = last.pre
  /\ (last.op = "disconnect" /\ last.done /\ last.ret = TRUE
        /\ (last.resumed \/ last.pre.status = "connected")) =>
       conn.status = "disconnected" /\ Released

\* Witness of C14: a disconnect that was suspended in a close, with a
\* resource to release, and returned true.
C14_Witness ==
  /\ last.op = "disconnect"
  /\ last.resumed
  /\ last.ret = TRUE
  /\ last.pre.pool # NullValue \/ last.pre.client # NullValue

\* What reset() leaves.
ResetState ==
  conn.status = "disconnected" /\ conn.config = NullValue /\ conn.error = NullValue

\* C15: when reset() returns, status is disconnected and config and error are
\* null, and they stay so until the next connect() call is made.
C15_ResetHolds ==
  [][(last'.op = "reset" \/ (ResetState /\ ~(last'.op = "connect" /\ ~last'.resumed)))
       => ResetState']_vars

\* ------------------------------------------------ adapter equivalence
\* C16: started from equal contents and given the same calls with the same
\* arguments and the same assigned ids, the in-memory and the local-persisted
\* adapter return equal results and their stored records stay equal.
C16_AdaptersAgree ==
  /\ PairAgree
  /\ last.op # "none" => last.ret["memory"] = last.ret["local"]

\* ------------------------------------------------ concurrent calls
\* The orders in which n calls can run one after another.
SerialOrders(n) == {p \in [1..n -> 1..n] : \A a, b \in 1..n : p[a] = p[b] => a = b}

\* The calls cs run one after another in the order p on the sequence s: the
\* sequence they leave, and what each returned (by position in p).
RECURSIVE Replay(_, _, _, _)
Replay(kind, s, cs, p) ==
  IF p = <<>> THEN [coll |-> s, rets |-> <<>>]
  ELSE LET r == SerialOp(kind, s, cs[Head(p)])
           rest == Replay(kind, r.coll, cs, Tail(p))
       IN [coll |-> rest.coll, rets |-> <<r.ret>> \o rest.rets]

\* C17: whatever the interleaving of concurrent insertOne, updateOne and
\* deleteOne calls, the stored records and every returned value are those of
\* running the same calls one after another in some order.
C17_Serializable ==
  (calls # <<>> /\ AllDone) =>
    \E p \in SerialOrders(Len(calls)) :
      LET r == Replay(backend, base, calls, p)
      IN /\ r.coll = Stored
         /\ \A k \in 1..Len(calls) : r.rets[k] = calls[p[k]].ret

\* Witness of C17: two calls on the stored record x of the in-memory
\* adapter, an update and a delete, returned in the reverse of the order in
\* which they were made.
C17_Witness ==
  /\ backend = "memory"
  /\ AllDone
  /\ finished = <<2, 1>>
  /\ calls[1].op = "updateOne" /\ calls[2].op = "deleteOne"
  /\ calls[1].arg = calls[2].arg
  /\ calls[2].ret # Null

\* Two concurrent updateOne calls of a stored id have returned, and both
\* patches set field f, to different values.
TwoUpdatesOf(f) ==
  /\ Len(calls) = 2 /\ AllDone
  /\ calls[1].op = "updateOne" /\ calls[2].op = "updateOne"
  /\ calls[1].arg = calls[2].arg
  /\ calls[1].arg["id"] \in IdsOf(View(backend, base))
  /\ f \in DOMAIN calls[1].upd /\ f \in DOMAIN calls[2].upd
  /\ calls[1].upd[f] # calls[2].upd[f]

\* C18: when two concurrent updateOne calls of the same id set the same field
\* to different values, the stored field ends with the value of the call
\* that returned last, and the fields neither patch names keep their values.
C18_LastUpdateWins ==
  \A f \in DataFields :
    TwoUpdatesOf(f) =>
      LET k == FirstWithId(View(backend, base), calls[1].arg["id"])
          before == View(backend, base)[k]
          after == AppView[k]
      IN /\ after[f] = calls[finished[2]].upd[f]
         /\ \A g \in (DOMAIN before) \ ((DOMAIN calls[1].upd) \cup (DOMAIN calls[2].upd)) :
              g \in DOMAIN after /\ after[g] = before[g]


\* The ids some document of the external collection can be deleted under.
RaceStored == {id \in RaceIds : Race_findOne(backend, mongo, id) # Null}

\* C19: in the external document adapters deleteOne reads the record and
\* then deletes it in two backend steps. A call whose two steps have another
\* deleteOne of the same id between them returns the record it read, not
\* absent, so both calls return a record that was removed once; a call
\* returns absent only when its own read found nothing. What two finished
\* calls returned is an outcome of one schedule of their steps. The
\* relational deleteOne, one DELETE ... RETURNING statement, returns the row
\* to at most one of the concurrent calls.
C19_StaleNeverAbsent ==
  /\ backend # "relational" =>
       /\ \A i \in 1..Len(calls) :
            calls[i].pc = "done" =>
              /\ calls[i].between =>
                   /\ calls[i].ret # Null
                   /\ calls[i].ret = Real_toAppDocument(calls[i].docToDelete)
              /\ calls[i].ret = Null =>
                   calls[i].docToDelete = Null /\ ~calls[i].between
       /\ (AllDone /\ Len(calls) = 2 /\ calls[1].id = calls[2].id) =>
            \E o \in RaceOutcomes(backend, base, calls[1].id) :
              /\ o.coll = mongo
              /\ o.ret = <<calls[1].ret, calls[2].ret>>
              /\ o.between = <<calls[1].between, calls[2].between>>
  /\ backend = "relational" =>
       \A i, j \in 1..Len(calls) :
         (i # j /\ calls[i].id = calls[j].id /\ calls[i].pc = "done" /\ calls[j].pc = "done")
           => (calls[i].ret = Null \/ calls[j].ret = Null)

\* Two deletes of one id have returned the same record, which the
\* collection lost once, the delete of one having run between the two steps
\* of the other.
C19_Witness ==
  /\ backend # "relational"
  /\ AllDone /\ Len(calls) = 2
  /\ calls[1].id = calls[2].id
  /\ calls[1].ret # Null /\ calls[1].ret = calls[2].ret
  /\ calls[1].between \/ calls[2].between
  /\ Len(base) - Len(mongo) = 1

\* C19 as stated: a deleteOne of the same id between the two steps of a
\* call can make the call return the stale record, and can make it return
\* absent.
C19_StaleOrAbsent ==
  (backend # "relational" /\ calls = <<>>) =>
    \A id \in RaceStored :
      /\ \E o \in RaceOutcomes(backend, mongo, id) :
           o.between[1] /\ o.ret[1] # Null /\ o.ret[1] = o.ret[2]
      /\ \E o \in RaceOutcomes(backend, mongo, id) :
           o.between[1] /\ o.ret[1] = Null


\* C20: when the backend raises during an operation of the external
\* adapter, find returns an empty sequence and count returns 0, and findOne,
\* findById, insertOne, updateOne, deleteOne and getOrderWithDetails fail to
\* their caller instead of returning a value.
C20_FailureSurfaces ==
  (last.op # "none" /\ last.raised) =>
    /\ last.op = "find" => (~last.failed /\ last.ret = <<>>)
    /\ last.op = "count" => (~last.failed /\ last.ret = 0)
    /\ last.op \notin {"find", "count"} => last.failed


SlotMutations == {"insertOne", "updateOne", "deleteOne"}

\* Every record of the in-memory sequence of the local-persisted adapter
\* carries its storage key.
SlotWellFormed == \A i \in 1..Len(storage) : Truthy(storage[i], "_id")

\* C21: in the local-persisted adapter, a mutating call whose write of the
\* storage slot fails reports a failure to its caller; the in-memory
\* sequence stays well-formed and later find, findById and count answer
\* from it.
C21_SlotFailureReported ==
  /\ SlotWellFormed
  /\ (last.op \in SlotMutations /\ last.wrote /\ ~last.ok) => last.failed
  /\ last.op = "find" => last.ret = Browser_find(storage, last.arg).rets
  /\ last.op = "findById" => last.ret = Browser_findById(storage, last.arg["id"]).ret
  /\ last.op = "count" => last.ret = Browser_count(storage, last.arg)

\* C22: in the local-persisted adapter, after a completed insertOne,
\* updateOne or deleteOne whose write of the slot succeeded, the slot holds
\* the text of exactly the in-memory sequence, and an adapter constructed on
\* the slot answers find({}) as the running one does.
C22_SlotHoldsStorage ==
  /\ (last.op \in SlotMutations /\ last.wrote /\ last.ok) =>
       /\ slot = JSON_stringify(storage)
       /\ Browser_loadFromLocalStorage(slot, TRUE) = storage
       /\ Browser_find(Browser_loadFromLocalStorage(slot, TRUE), EmptyRec).rets
            = Browser_find(storage, EmptyRec).rets
  /\ last.op = "constructor" => storage = JSON_parse(slot)

\* A write of the slot succeeded after an earlier write had failed, and the
\* slot holds two records.
C22_Witness ==
  /\ last.op \in SlotMutations /\ last.wrote /\ last.ok
  /\ JSON_parse(last.preSlot) # last.pre
  /\ Len(storage) = 2
  /\ Len(slot) = 2


\* The rows that do not belong to order id.
RowsOfOthers(rows, id) == SelectSeq(rows, LAMBDA row : row["order_id"] # id)

\* s is t with one element taken out.
OneRemoved(s, t) == \E i \in 1..Len(t) : s = Splice(t, i)

\* C23: an insert or a delete changes no other record of its collection and
\* no record of another collection, except that deleting an order removes
\* the order items of that order: creating an order only appends the order
\* and its items, inserting an item only appends it, deleting an order takes
\* out that order and leaves every item of the other orders in place.
C23_OnlyTheCascade ==
  LET ordersBefore == last.pre[1]
      itemsBefore == last.pre[2]
  IN /\ last.op = "createOrder" =>
          /\ orders = Append(ordersBefore, last.ret)
          /\ orderItems = itemsBefore \o last.rets
     /\ last.op = "orderItems.insertOne" =>
          /\ orders = ordersBefore
          /\ orderItems = Append(itemsBefore, last.ret)
     /\ last.op = "orders.deleteOne" =>
          /\ orderItems = itemsBefore
          /\ IF last.ret = Null THEN orders = ordersBefore
             ELSE OneRemoved(orders, ordersBefore)
     /\ last.op = "deleteOrder" =>
          IF last.ret = Null THEN orders = ordersBefore /\ orderItems = itemsBefore
          ELSE /\ OneRemoved(orders, ordersBefore)
               /\ RowsOfOthers(orderItems, last.arg["id"])
                    = RowsOfOthers(itemsBefore, last.arg["id"])


\* The stored rows that reference the order of the last composite read.
JoinRowsOf(rows) == SelectSeq(rows, LAMBDA t : t["order_id"] = last.arg["id"])

\* C24: for the same stored data the relational getOrderWithDetails returns
\* what the in-memory one returns: absent for an unknown order, and for a
\* stored order the order's fields with payment absent when the order has
\* no payment, items empty when it has no items, customer absent when its
\* customer is not stored.
C24_SameShape ==
  last.op = "getOrderWithDetails" =>
    /\ last.ret = Null <=> last.memory = Null
    /\ last.ret # Null =>
         /\ JoinRowsOf(payments) = <<>> => last.ret["payment"] = Null
         /\ JoinRowsOf(orderItems) = <<>> => last.ret["items"] = <<>>
         /\ (\A i \in 1..Len(customers) : customers[i]["id"] # last.ret["customer_id"])
              => last.ret["customer"] = Null
         /\ last.ret = last.memory


\* The names the warehouses with the given id have in a warehouses array.
NamesOf(ws, id) == {ws[i]["name"] : i \in {j \in 1..Len(ws) : ws[j]["id"] = id}}

Holding ==
  /\ conn.status = "connected"
  /\ manager = "postgres" => conn.pool # NullValue
  /\ manager \in {"mongoBrowser", "mongoNode"} =>
       conn.client # NullValue /\ conn.db # NullValue

\* C26: a connect() that returned true is not undone by a disconnect() or
\* reset() invoked before it: when the step after the connect's return
\* completes a close that such an earlier call started, status stays connected
\* and the backend resource stays set.
C26_ConnectNotUndone ==
  [][(/\ last.op = "connect" /\ last.done /\ last.ret = TRUE
      /\ last'.op \in {"disconnect", "close"} /\ last'.resumed)
       => Holding']_vars


\* C27: in the document-store connection manager, db and getCollection(name)
\* succeed only if status is connected, and throw otherwise, in every
\* reachable state.
C27_HandleOnlyConnected ==
  manager \in {"mongoBrowser", "mongoNode"} =>
    \A name \in CollectionNames :
      /\ Conn_db(conn).failed = (conn.status # "connected")
      /\ Conn_getCollection(manager, conn, name).failed = (conn.status # "connected")


\* The payments of an order.
PaymentsOf(pays, orderId) == {i \in 1..Len(pays) : pays[i]["order_id"] = orderId}

\* C28: the checkout form never creates a payment for an order that already
\* has one in the store when the form is submitted, also with two sessions for
\* the order loaded before either submits; so each order has at most one
\* payment.
C28_OnePaymentPerOrder ==
  /\ (last.op = "handlePaymentSubmit" /\ last.wrote) => PaymentsOf(last.pre, last.arg) = {}
  /\ \A orderId \in CheckoutOrderIds : Cardinality(PaymentsOf(payments, orderId)) <= 1


\* C29: in each access hook isLoading is true whenever an operation started
\* through the hook has not completed, also with several in flight, and false
\* when none is; error holds the failure of the most recently completed
\* failing operation until the next operation starts.
C29_LoadingWhileInFlight ==
  /\ hook.isLoading = (hook.flight # <<>>)
  /\ hook.error = hook.failure


\* C30: getOrderWithDetails run concurrently with createOrder and deleteOrder
\* returns a consistent snapshot: when it returns an order, the returned items
\* are the item rows that order had at one single moment during the call.
C30_ConsistentSnapshot ==
  (last.op = "getOrderWithDetails" /\ last.ret # Null) =>
    last.ret["items"] \in last.moments

====
